---- MODULE Spec2Model ----
(***************************************************************************)
(* Gomoku: the interactive game with its priority move selector and        *)
(* alpha-beta search (src/python/main.py) and the AlphaZero-style training *)
(* game, MCTS and self-play (src/train/*.py).                              *)
(*                                                                         *)
(* Interactive game: cells hold 0 (empty), 1 (human), 2 (AI).              *)
(* Training game:    cells hold 0 (empty), 1, -1.                          *)
(***************************************************************************)
EXTENDS Integers, Sequences, FiniteSets, TLC

\* Side of the interactive board (the program plays on 15 x 15; the model
\* plays on a smaller odd board, so that the board fills on the human's move
\* exactly as it does on 15 x 15).
BOARD_SIZE == 7

\* Stand-in for float('inf'): larger in magnitude than any board evaluation.
INF == 2000000000

VARIABLES
    board,           \* main.py: board
    current_player,  \* main.py: current_player
    game_over,       \* main.py: game_over
    winner,          \* main.py: winner, << >> for None, else <<0>>, <<1>>, <<2>>
    last_move,       \* main.py: last_move, << >> for None, else <<r, c>>
    set_order,       \* iteration order of a Python set of cells ("asc"/"desc")
    plies,           \* stones placed since the initial state
    ai_stage,        \* stage of the last ai_move call that returned (0: no call yet)
    ai_pre,          \* the board when ai_move was last called
    ai_post,         \* the board when that call returned
    ai_ret,          \* what that call returned (<< >> for None, else <<r, c>>)
    events,          \* clicks of the batch the player's event loop has yet to handle
    net,             \* the predictor behind neural_net.predict
    num_sims,        \* MCTS.num_sims
    temperature,     \* temperature of the episode / of the players
    tree,            \* MCTS.search: the nodes made so far, by path from the root
    root_board,      \* MCTS.search: the board argument
    root_player,     \* MCTS.search: the player argument
    sims_done,       \* MCTS.search: iterations of the simulation loop completed
    search_path,     \* MCTS.search: search_path of the last simulation
    search_value,    \* MCTS.search: value backpropagated by the last simulation
    search_pc,       \* MCTS.search: "idle", "running", "returned" or "failed"
    search_out,      \* MCTS.search: the vector returned
    ep_board,        \* execute_episode: board
    ep_player,       \* execute_episode: player
    ep_boards,       \* execute_episode: boards
    ep_players,      \* execute_episode: the player to move at each recorded ply
    ep_policies,     \* execute_episode: policies
    training_data,   \* generate_selfplay_games: what the game added to training_data
    ep_results,      \* execute_episode: game_results
    ep_pc,           \* "idle", "running", "done", "collected" or "failed"
    pg_board,        \* play_game: board
    pg_player,       \* play_game: current_player
    pg_pc,           \* play_game: "idle", "running", "returned" or "failed"
    pg_winner,       \* play_game: the value returned
    call_board,      \* a call of a GomokuGame method: the board array passed
    call_pre,        \* the contents of that array when the call was made
    call_policy,     \* get_symmetries: the policy argument
    call_action,     \* get_next_state: the action argument
    call_player,     \* get_next_state: the player argument
    call_pc,         \* "idle", "ready", "next_state" or "symmetries"
    call_next,       \* what get_next_state did (ok FALSE: it raised)
    call_syms,       \* the list get_symmetries returned
    ev_board,        \* a call of an evaluator of main.py: board at the call
    ev_cell,         \* evaluate_position: the arguments (r, c)
    ev_player,       \* evaluate_position: the argument player
    ev_pc,           \* "idle", "ready", "position" or "board"
    ev_score,        \* what evaluate_position returned
    ev_total,        \* what evaluate_board returned
    mv_board,        \* a call of ai_move / alpha_beta_search / get_valid_moves: board
    mv_order,        \* iteration order of the set of cells during that call
    mv_pc,           \* "idle", "ready", "ai_move", "search", "valid_moves", "has_threat"
    use_llm,         \* main.py: use_llm
    mv_reply,        \* ai_move: what the chat completion did (text or error)
    mv_ai,           \* ai_move: the move before the oracle and what was returned
    mv_depth,        \* alpha_beta_search: the argument depth
    mv_maximizing,   \* alpha_beta_search: the argument maximizing_player
    mv_search,       \* alpha_beta_search: what it returned
    mv_valid,        \* get_valid_moves: the list returned
    mv_player,       \* has_threat: the argument player
    mv_threat        \* has_threat: what it returned

gameVars == <<board, current_player, game_over, winner, last_move, set_order,
              plies, ai_stage, ai_pre, ai_post, ai_ret, events>>

netVars == <<net, num_sims, temperature>>

searchVars == <<tree, root_board, root_player, sims_done, search_path,
                search_value, search_pc, search_out>>

episodeVars == <<ep_board, ep_player, ep_boards, ep_players, ep_policies,
                 ep_results, ep_pc, training_data>>

playVars == <<pg_board, pg_player, pg_pc, pg_winner>>

callVars == <<call_board, call_pre, call_policy, call_action, call_player,
              call_pc, call_next, call_syms>>

evalVars == <<ev_board, ev_cell, ev_player, ev_pc, ev_score, ev_total>>

moveVars == <<mv_board, mv_order, mv_pc, use_llm, mv_reply, mv_ai, mv_depth,
              mv_maximizing, mv_search, mv_valid, mv_player, mv_threat>>

vars == <<gameVars, netVars, searchVars, episodeVars, playVars, callVars, evalVars,
          moveVars>>

\* the state of a part of the program that is not running
GameIdle ==
    /\ board = << >> /\ current_player = 1 /\ game_over = FALSE
    /\ winner = << >> /\ last_move = << >> /\ set_order = "asc" /\ plies = 0
    /\ ai_stage = 0 /\ ai_pre = << >> /\ ai_post = << >> /\ ai_ret = << >>
    /\ events = << >>

NetIdle == net = "flat" /\ num_sims = 0 /\ temperature = 0

SearchIdle ==
    /\ tree = << >> /\ root_board = << >> /\ root_player = 1 /\ sims_done = 0
    /\ search_path = << >> /\ search_value = 0 /\ search_pc = "idle"
    /\ search_out = << >>

EpisodeIdle ==
    /\ ep_board = << >> /\ ep_player = 1 /\ ep_boards = << >>
    /\ ep_players = << >> /\ ep_policies = << >> /\ ep_results = << >>
    /\ ep_pc = "idle" /\ training_data = << >>

PlayIdle == pg_board = << >> /\ pg_player = 1 /\ pg_pc = "idle" /\ pg_winner = 0

CallIdle ==
    /\ call_board = << >> /\ call_pre = << >> /\ call_policy = << >>
    /\ call_action = 0 /\ call_player = 1 /\ call_pc = "idle"
    /\ call_next = << >> /\ call_syms = << >>

EvalIdle ==
    /\ ev_board = << >> /\ ev_cell = <<0, 0>> /\ ev_player = 1 /\ ev_pc = "idle"
    /\ ev_score = 0 /\ ev_total = 0

MoveIdle ==
    /\ mv_board = << >> /\ mv_order = "asc" /\ mv_pc = "idle" /\ use_llm = FALSE
    /\ mv_reply = << >>
    /\ mv_ai = << >> /\ mv_depth = 0 /\ mv_maximizing = TRUE
    /\ mv_search = << >> /\ mv_valid = << >>
    /\ mv_player = 0 /\ mv_threat = << >>

----------------------------------------------------------------------------
(* Board primitives *)

Idx == 0 .. (BOARD_SIZE - 1)

Cells == Idx \X Idx

InBounds(x, y) == x >= 0 /\ x < BOARD_SIZE /\ y >= 0 /\ y < BOARD_SIZE

EmptyBoard == [i \in Idx |-> [j \in Idx |-> 0]]

\* board[r][c] = v
Put(b, r, c, v) == [b EXCEPT ![r][c] = v]

\* directions = [(1,0), (0,1), (1,1), (1,-1)]
directions == << <<1, 0>>, <<0, 1>>, <<1, 1>>, <<1, -1>> >>

\* Number of a cell in row-major scan order (for i ... for j ...)
RowMajor(p) == p[1] * BOARD_SIZE + p[2]

\* The least element of a non-empty set of integers
MinOf(S) == CHOOSE x \in S : \A y \in S : x <= y

\* Cell number k in row-major scan order
CellAt(k) == << k \div BOARD_SIZE, k % BOARD_SIZE >>

NumCells == BOARD_SIZE * BOARD_SIZE

\* while in bounds and board[x][y] == color: count += 1; step
RECURSIVE RunFrom(_, _, _, _, _, _)
RunFrom(b, x, y, dx, dy, color) ==
    IF InBounds(x, y) /\ b[x][y] = color
    THEN 1 + RunFrom(b, x + dx, y + dy, dx, dy, color)
    ELSE 0

\* count of one direction of check_winner / check_game_over
LineCount(b, row, col, d) ==
    1 + RunFrom(b, row + directions[d][1], col + directions[d][2],
                directions[d][1], directions[d][2], b[row][col])
      + RunFrom(b, row - directions[d][1], col - directions[d][2],
                -directions[d][1], -directions[d][2], b[row][col])

check_winner_exact5(b, row, col) ==
    IF \E d \in 1..4 : LineCount(b, row, col, d) = 5 THEN b[row][col] ELSE 0

check_winner(b, row, col) ==
    IF \E d \in 1..4 : LineCount(b, row, col, d) >= 5 THEN b[row][col] ELSE 0

\* the stone on scan cell k (0 when the cell is empty)
StoneAt(b, k) == b[CellAt(k)[1]][CellAt(k)[2]]

\* the stone on the first scan cell of a set of scan cells, 0 for no cell
FirstStone(b, hits) == IF hits = {} THEN 0 ELSE StoneAt(b, MinOf(hits))

\* check_game_over: the colour of the first stone, in scan order, that lies
\* on a run of five or more; 0 when there is none.
check_game_over(b) ==
    FirstStone(b, { k \in 0..(NumCells - 1) :
                      /\ StoneAt(b, k) # 0
                      /\ \E d \in 1..4 : LineCount(b, CellAt(k)[1], CellAt(k)[2], d) >= 5 })

----------------------------------------------------------------------------
(* Threat evaluator *)

\* One polarity of evaluate_position: <<own stones met, blocked by opponent>>
RECURSIVE EvalWalk(_, _, _, _, _, _)
EvalWalk(b, x, y, dx, dy, player) ==
    IF ~InBounds(x, y) THEN <<0, 0>>
    ELSE IF b[x][y] = player
         THEN LET rest == EvalWalk(b, x + dx, y + dy, dx, dy, player)
              IN  <<1 + rest[1], rest[2]>>
         ELSE IF b[x][y] # 0 THEN <<0, 1>> ELSE <<0, 0>>

PositionTable(length, block_count) ==
    IF block_count = 2 THEN 0
    ELSE IF block_count = 1
         THEN (IF length >= 5 THEN 100000
               ELSE IF length = 4 THEN 10000
               ELSE IF length = 3 THEN 1000
               ELSE IF length = 2 THEN 100 ELSE 0)
         ELSE (IF length >= 5 THEN 1000000
               ELSE IF length = 4 THEN 100000
               ELSE IF length = 3 THEN 10000
               ELSE IF length = 2 THEN 1000 ELSE 0)

\* length and block_count of one direction from its two walks
DirScore(fw, bw) == PositionTable(fw[1] + bw[1] + 1, fw[2] + bw[2])

\* EvalDir from the forward walk alone
EvalDir_forward_only(b, r, c, player, d) ==
    DirScore(EvalWalk(b, r + directions[d][1], c + directions[d][2],
                      directions[d][1], directions[d][2], player),
             <<0, 0>>)

EvalDir(b, r, c, player, d) ==
    DirScore(EvalWalk(b, r + directions[d][1], c + directions[d][2],
                      directions[d][1], directions[d][2], player),
             EvalWalk(b, r - directions[d][1], c - directions[d][2],
                      -directions[d][1], -directions[d][2], player))

evaluate_position(b, r, c, player) ==
    IF r < 0 \/ r >= BOARD_SIZE \/ c < 0 \/ c >= BOARD_SIZE \/ b[r][c] # 0
    THEN 0
    ELSE EvalDir(b, r, c, player, 1) + EvalDir(b, r, c, player, 2)
         + EvalDir(b, r, c, player, 3) + EvalDir(b, r, c, player, 4)

\* 1 when the cell (x, y), just beyond a chain, is off the board or occupied
Blocked(b, x, y) == IF ~InBounds(x, y) \/ b[x][y] # 0 THEN 1 ELSE 0

\* evaluate_board, one stone and one direction, from the stones f and g met
\* by the forward and the backward walk: <<chain, block_count>>
ChainOf(b, i, j, dx, dy, f, g) ==
    << 1 + f + g,
       Blocked(b, i + (f + 1) * dx, j + (f + 1) * dy)
       + Blocked(b, i - (g + 1) * dx, j - (g + 1) * dy) >>

BoardChain(b, i, j, d) ==
    ChainOf(b, i, j, directions[d][1], directions[d][2],
            RunFrom(b, i + directions[d][1], j + directions[d][2],
                    directions[d][1], directions[d][2], b[i][j]),
            RunFrom(b, i - directions[d][1], j - directions[d][2],
                    -directions[d][1], -directions[d][2], b[i][j]))

\* the "return +-1000000" of evaluate_board fires on this chain
IsFive(ch) == ch[2] # 2 /\ ch[1] >= 5

BoardFive(b, i, j, d) == IsFive(BoardChain(b, i, j, d))

BoardTable(ch) ==
    IF ch[2] = 2 THEN 0
    ELSE IF ch[2] = 1
         THEN (IF ch[1] = 4 THEN 10000
               ELSE IF ch[1] = 3 THEN 1000
               ELSE IF ch[1] = 2 THEN 100 ELSE 0)
         ELSE (IF ch[1] = 4 THEN 100000
               ELSE IF ch[1] = 3 THEN 10000
               ELSE IF ch[1] = 2 THEN 1000 ELSE 0)

BoardDirScore(b, i, j, d) == BoardTable(BoardChain(b, i, j, d))

\* total_score += position_score for the AI, -= for the human
Signed(stone, position_score) ==
    IF stone = 0 THEN 0 ELSE IF stone = 2 THEN position_score ELSE -position_score

\* what the stone on scan cell k adds to total_score (0 for an empty cell)
CellScore(b, k) ==
    IF StoneAt(b, k) = 0 THEN 0
    ELSE Signed(StoneAt(b, k),
                BoardDirScore(b, CellAt(k)[1], CellAt(k)[2], 1)
                + BoardDirScore(b, CellAt(k)[1], CellAt(k)[2], 2)
                + BoardDirScore(b, CellAt(k)[1], CellAt(k)[2], 3)
                + BoardDirScore(b, CellAt(k)[1], CellAt(k)[2], 4))

\* total_score over the scan cells lo..hi
RECURSIVE SumScores(_, _, _)
SumScores(b, lo, hi) ==
    IF lo > hi THEN 0
    ELSE IF lo = hi THEN CellScore(b, lo)
    ELSE SumScores(b, lo, (lo + hi) \div 2) + SumScores(b, (lo + hi) \div 2 + 1, hi)

\* evaluate_board given the colour of the first stone, in scan order, on an
\* unblocked run of five or more (0 when there is none): the scan returns
\* there, and otherwise adds up every stone's position_score.
EvalBoardWith(b, five) ==
    IF five = 2 THEN 1000000
    ELSE IF five # 0 THEN -1000000
    ELSE SumScores(b, 0, NumCells - 1)

evaluate_board(b) ==
    EvalBoardWith(b,
        FirstStone(b, { k \in 0..(NumCells - 1) :
                          /\ StoneAt(b, k) # 0
                          /\ \E d \in 1..4 : BoardFive(b, CellAt(k)[1], CellAt(k)[2], d) }))

----------------------------------------------------------------------------
(* Candidate moves and alpha-beta search *)

\* None, for a move
NoMove == << >>

center == BOARD_SIZE \div 2

Dist(p) ==
    (IF p[1] >= center THEN p[1] - center ELSE center - p[1])
    + (IF p[2] >= center THEN p[2] - center ELSE center - p[2])

\* Sort key of a cell: the distance to the centre first; cells at the same
\* distance keep the order in which the set of candidates yields them (the
\* sort is stable), which is row-major ascending or descending here.
SortKey(p, ord) ==
    Dist(p) * NumCells
    + (IF ord = "asc" THEN p[1] * BOARD_SIZE + p[2]
       ELSE NumCells - 1 - (p[1] * BOARD_SIZE + p[2]))

SortedCells(ord) ==
    [n \in 1..NumCells |->
        CHOOSE p \in Cells :
            Cardinality({q \in Cells : SortKey(q, ord) < SortKey(p, ord)}) = n - 1]

SortedAsc == SortedCells("asc")

SortedDesc == SortedCells("desc")

neighbours == { <<-1, -1>>, <<-1, 0>>, <<-1, 1>>, <<0, -1>>,
                <<0, 1>>, <<1, -1>>, <<1, 0>>, <<1, 1>> }

\* the set "candidates" of get_valid_moves
Candidates(b) ==
    LET near == { p \in Cells :
                    /\ b[p[1]][p[2]] = 0
                    /\ \E n \in neighbours :
                          /\ InBounds(p[1] + n[1], p[2] + n[2])
                          /\ b[p[1] + n[1]][p[2] + n[2]] # 0 }
        lo == IF center - 2 > 0 THEN center - 2 ELSE 0
        hi == IF center + 3 < BOARD_SIZE THEN center + 3 ELSE BOARD_SIZE
        mid == { p \in Cells :
                    /\ p[1] >= lo /\ p[1] < hi /\ p[2] >= lo /\ p[2] < hi
                    /\ b[p[1]][p[2]] = 0 }
    IN  IF near # {} THEN near
        ELSE IF mid # {} THEN mid
        ELSE { <<center, center>> }

\* sorted(list(candidates), key = distance to the centre)
SortedMoves(cand, ord) ==
    SelectSeq(IF ord = "asc" THEN SortedAsc ELSE SortedDesc, LAMBDA p : p \in cand)

\* the candidates in the order of the set, the sort left out
get_valid_moves_unsorted(b, ord) ==
    SelectSeq([n \in 1..NumCells |->
                  CellAt(IF ord = "asc" THEN n - 1 ELSE NumCells - n)],
              LAMBDA p : p \in Candidates(b))

get_valid_moves(b, ord) == SortedMoves(Candidates(b), ord)

Max2(a, b) == IF a >= b THEN a ELSE b

Min2(a, b) == IF a <= b THEN a ELSE b

\* alpha_beta_search works on the one shared board: it is passed in, and the
\* board as the call leaves it comes back with the value and the best move.
RECURSIVE alpha_beta_search(_, _, _, _, _, _)
RECURSIVE MaxLoop(_, _, _, _, _, _)
RECURSIVE MinLoop(_, _, _, _, _, _)
RECURSIVE MaxStep(_, _, _, _)
RECURSIVE MinStep(_, _, _, _)

\* the return at depth == 0 or winner != 0
Leaf(b, w) ==
    [val |-> IF w = 2 THEN INF ELSE IF w = 1 THEN -INF ELSE evaluate_board(b),
     move |-> NoMove, board |-> b]

\* the return after the loop over the moves
LoopResult(end) == [val |-> end.eval, move |-> end.best_move, board |-> end.board]

\* the variables of the loop as it starts (eval is max_eval or min_eval) and
\* whether the loop has hit its "break"
LoopStart(b, alpha, beta, maximizing_player) ==
    [board |-> b, alpha |-> alpha, beta |-> beta,
     eval |-> IF maximizing_player THEN -INF ELSE INF,
     best_move |-> NoMove, broke |-> FALSE]

SearchMoves(b, depth, alpha, beta, maximizing_player, ord, moves) ==
    IF maximizing_player
    THEN LoopResult(MaxLoop(LoopStart(b, alpha, beta, TRUE), depth, moves, 1, Len(moves), ord))
    ELSE LoopResult(MinLoop(LoopStart(b, alpha, beta, FALSE), depth, moves, 1, Len(moves), ord))

SearchWith(b, depth, alpha, beta, maximizing_player, ord, w) ==
    IF depth = 0 \/ w # 0 THEN Leaf(b, w)
    ELSE SearchMoves(b, depth, alpha, beta, maximizing_player, ord, get_valid_moves(b, ord))

alpha_beta_search(b, depth, alpha, beta, maximizing_player, ord) ==
    SearchWith(b, depth, alpha, beta, maximizing_player, ord, check_game_over(b))

\* the loop left as soon as a move has improved max_eval
MaxUpdate_break_on_improve(st, p, sub) ==
    [board |-> Put(sub.board, p[1], p[2], 0),
     alpha |-> Max2(st.alpha, sub.val),
     beta |-> st.beta,
     eval |-> IF sub.val > st.eval THEN sub.val ELSE st.eval,
     best_move |-> IF sub.val > st.eval THEN p ELSE st.best_move,
     broke |-> sub.val > st.eval]

\* The end of one iteration of "for r, c in moves" with the AI to move: the
\* stone is taken off, max_eval, best_move and alpha are updated from the
\* result `sub` of the recursive call, and beta <= alpha breaks the loop.
MaxUpdate(st, p, sub) ==
    [board |-> Put(sub.board, p[1], p[2], 0),
     alpha |-> Max2(st.alpha, sub.val),
     beta |-> st.beta,
     eval |-> IF sub.val > st.eval THEN sub.val ELSE st.eval,
     best_move |-> IF sub.val > st.eval THEN p ELSE st.best_move,
     broke |-> st.beta <= Max2(st.alpha, sub.val)]

MaxStep(st, depth, p, ord) ==
    MaxUpdate(st, p,
        alpha_beta_search(Put(st.board, p[1], p[2], 2), depth - 1,
                          st.alpha, st.beta, FALSE, ord))

\* iterations lo..hi of the AI's loop
MaxLoop(st, depth, moves, lo, hi, ord) ==
    IF st.broke \/ lo > hi THEN st
    ELSE IF lo = hi THEN MaxStep(st, depth, moves[lo], ord)
    ELSE MaxLoop(MaxLoop(st, depth, moves, lo, (lo + hi) \div 2, ord),
                 depth, moves, (lo + hi) \div 2 + 1, hi, ord)

\* The same with the human to move: min_eval, best_move and beta.
MinUpdate(st, p, sub) ==
    [board |-> Put(sub.board, p[1], p[2], 0),
     alpha |-> st.alpha,
     beta |-> Min2(st.beta, sub.val),
     eval |-> IF sub.val < st.eval THEN sub.val ELSE st.eval,
     best_move |-> IF sub.val < st.eval THEN p ELSE st.best_move,
     broke |-> Min2(st.beta, sub.val) <= st.alpha]

MinStep(st, depth, p, ord) ==
    MinUpdate(st, p,
        alpha_beta_search(Put(st.board, p[1], p[2], 1), depth - 1,
                          st.alpha, st.beta, TRUE, ord))

\* iterations lo..hi of the human's loop
MinLoop(st, depth, moves, lo, hi, ord) ==
    IF st.broke \/ lo > hi THEN st
    ELSE IF lo = hi THEN MinStep(st, depth, moves[lo], ord)
    ELSE MinLoop(MinLoop(st, depth, moves, lo, (lo + hi) \div 2, ord),
                 depth, moves, (lo + hi) \div 2 + 1, hi, ord)

\* depth = 2 in strategic_fallback
SearchDepth == 2

\* The evaluation-based scan of strategic_fallback: the first empty cell, in
\* scan order, of maximal my_score + opp_threat * 1.2 (compared as
\* 10 * my_score + 12 * opp_threat).
FallbackTotal(b, p) ==
    10 * evaluate_position(b, p[1], p[2], 2) + 12 * evaluate_position(b, p[1], p[2], 1)

\* the first of the cells, in scan order, whose total is the largest
BestOf(empties, total) ==
    IF empties = {} THEN NoMove
    ELSE CHOOSE p \in empties :
            \A q \in empties :
                \/ total[q] < total[p]
                \/ (total[q] = total[p] /\ RowMajor(p) <= RowMajor(q))

EvalScan(b) ==
    BestOf({ p \in Cells : b[p[1]][p[2]] = 0 },
           [ p \in Cells |-> FallbackTotal(b, p) ])

\* strategic_fallback after its alpha-beta search returned res
FallbackWith(res) ==
    IF res.move # NoMove
    THEN [move |-> res.move, board |-> res.board]
    ELSE [move |-> EvalScan(res.board), board |-> res.board]

strategic_fallback(b, ord) ==
    FallbackWith(alpha_beta_search(b, SearchDepth, -INF, INF, TRUE, ord))

----------------------------------------------------------------------------
(* Open fours and open threes *)

\* The chain of has_threat / detect_live_three through stone (i, j) along
\* direction d: its length and the two cells just beyond its ends.
ChainLen(b, i, j, d) == LineCount(b, i, j, d)

\* the cell k steps from (i, j) along direction d
StepFrom(i, j, d, k) == << i + k * directions[d][1], j + k * directions[d][2] >>

BeforeStart(b, i, j, d) ==
    StepFrom(i, j, d,
        -(1 + RunFrom(b, i - directions[d][1], j - directions[d][2],
                      -directions[d][1], -directions[d][2], b[i][j])))

AfterEnd(b, i, j, d) ==
    StepFrom(i, j, d,
        1 + RunFrom(b, i + directions[d][1], j + directions[d][2],
                    directions[d][1], directions[d][2], b[i][j]))

\* the cell is in bounds and empty
IsFree(b, p) == InBounds(p[1], p[2]) /\ b[p[1]][p[2]] = 0

\* OpenEnds with one free end being enough
OpenEnds_either(b, i, j, d) ==
    IsFree(b, BeforeStart(b, i, j, d)) \/ IsFree(b, AfterEnd(b, i, j, d))

\* both ends of the chain are in bounds and empty
OpenEnds(b, i, j, d) ==
    IsFree(b, BeforeStart(b, i, j, d)) /\ IsFree(b, AfterEnd(b, i, j, d))

\* Scan position n runs over stones in scan order and, per stone, over the
\* four directions in order.
ScanCell(n) == CellAt(n \div 4)

ScanDir(n) == (n % 4) + 1

\* scan positions at which `player` has a chain of exactly len stones with
\* both ends open
OpenChains(b, player, len) ==
    { n \in 0..(4 * NumCells - 1) :
        /\ b[ScanCell(n)[1]][ScanCell(n)[2]] = player
        /\ ChainLen(b, ScanCell(n)[1], ScanCell(n)[2], ScanDir(n)) = len
        /\ OpenEnds(b, ScanCell(n)[1], ScanCell(n)[2], ScanDir(n)) }

\* (before_start, after_end) of the chain at scan position n
EndsAt(b, n) ==
    << BeforeStart(b, ScanCell(n)[1], ScanCell(n)[2], ScanDir(n)),
       AfterEnd(b, ScanCell(n)[1], ScanCell(n)[2], ScanDir(n)) >>

\* has_threat returns at the first open chain of four met by the scan
ThreatOf(b, hits) ==
    IF hits = {} THEN [found |-> FALSE, points |-> << >>]
    ELSE [found |-> TRUE, points |-> EndsAt(b, MinOf(hits))]

has_threat(b, player) == ThreatOf(b, OpenChains(b, player, 4))

\* the m-th least element of a set of integers
NthOf(hits, m) == CHOOSE n \in hits : Cardinality({ h \in hits : h < n }) = m - 1

\* detect_live_three appends, for each open chain of three in scan order,
\* before_start and then after_end
ThreatList(b, hits) ==
    [ t \in 1..(2 * Cardinality(hits)) |->
        EndsAt(b, NthOf(hits, (t + 1) \div 2))[2 - (t % 2)] ]

\* detect_live_three with `len(chain) == 4`
detect_live_three_of_four(b, player) == ThreatList(b, OpenChains(b, player, 4))

detect_live_three(b, player) == ThreatList(b, OpenChains(b, player, 3))

----------------------------------------------------------------------------
(* The move selector *)

\* the end of one step of the scan of stages 1 and 2: the stone is taken off
\* again, and the cell is returned if check_winner reported the stone
WinUpdate(placed, i, j, stone) ==
    [move |-> IF check_winner(placed, i, j) = stone THEN <<i, j>> ELSE NoMove,
     board |-> Put(placed, i, j, 0)]

\* One cell of the scan of stages 1 and 2: put `stone` on the cell if it is
\* empty, test check_winner, take the stone off again; st holds the board
\* and the move returned, if any.
WinStep(st, k, stone) ==
    IF StoneAt(st.board, k) # 0 THEN st
    ELSE WinUpdate(Put(st.board, CellAt(k)[1], CellAt(k)[2], stone),
                   CellAt(k)[1], CellAt(k)[2], stone)

\* scan cells lo..hi, stopping at the first return
RECURSIVE WinRange(_, _, _, _)
WinRange(st, lo, hi, stone) ==
    IF st.move # NoMove \/ lo > hi THEN st
    ELSE IF lo = hi THEN WinStep(st, lo, stone)
    ELSE WinRange(WinRange(st, lo, (lo + hi) \div 2, stone),
                  (lo + hi) \div 2 + 1, hi, stone)

WinScan(b, stone) == WinRange([move |-> NoMove, board |-> b], 0, NumCells - 1, stone)

\* the first element of a sequence of cells, None when it is empty
HeadOrNone(ok) == IF ok = << >> THEN NoMove ELSE ok[1]

\* for r, c in points: the first one that is in bounds and empty
FirstEmpty(b, points) == HeadOrNone(SelectSeq(points, LAMBDA p : IsFree(b, p)))

\* stages 3 and 4: the first free end of the open four, if there is one
FourMove(b, threat) == IF threat.found THEN FirstEmpty(b, threat.points) ELSE NoMove

\* stages 5 and 6, for r, c in points: the first empty one whose score for
\* the AI exceeds the threshold
FirstScoring(b, points, threshold) ==
    HeadOrNone(SelectSeq(points,
        LAMBDA p : /\ b[p[1]][p[2]] = 0
                   /\ evaluate_position(b, p[1], p[2], 2) > threshold))

\* a stage returns move m, or falls through to the later stages
OrElse(m, b, stage, later) ==
    IF m # NoMove THEN [move |-> m, board |-> b, stage |-> stage] ELSE later

\* stage 7 and, the oracle being disabled, stage 8: return traditional_move
Stage7(fb) == [move |-> fb.move, board |-> fb.board, stage |-> 7]

\* stages 3 to 7, on the board b that stages 1 and 2 left
AiMoveLate(b, ord) ==
    OrElse(FourMove(b, has_threat(b, 2)), b, 3,
    OrElse(FourMove(b, has_threat(b, 1)), b, 4,
    OrElse(FirstScoring(b, detect_live_three(b, 2), 150), b, 5,
    OrElse(FirstScoring(b, detect_live_three(b, 1), 100), b, 6,
           Stage7(strategic_fallback(b, ord))))))

\* stage 2 left out: the later stages run whatever the block scan found
AfterStage2_unblocked(s2, ord) == AiMoveLate(s2.board, ord)

\* stage 2 on the board stage 1 left, then the later stages
AfterStage2(s2, ord) == OrElse(s2.move, s2.board, 2, AiMoveLate(s2.board, ord))

\* the opponent's open four looked at before the block scan
AfterStage1_four_first(s1, ord) ==
    OrElse(s1.move, s1.board, 1,
    OrElse(FourMove(s1.board, has_threat(s1.board, 1)), s1.board, 4,
           AfterStage2(WinScan(s1.board, 1), ord)))

AfterStage1(s1, ord) ==
    OrElse(s1.move, s1.board, 1, AfterStage2(WinScan(s1.board, 1), ord))

\* stage 1 left out: the scan for the AI's own five never runs
ai_move_no_win_scan(b, ord) == AfterStage2(WinScan(b, 1), ord)

\* ai_move() with game_over false: the move returned, the board as the call
\* leaves it, and the stage that returned.
ai_move(b, ord) == AfterStage1(WinScan(b, 2), ord)

----------------------------------------------------------------------------
(* The oracle stage of ai_move *)

\* Text is a sequence of one-character strings.
whitespace == {" ", "\n"}

\* str.strip(): whitespace taken off both ends
RECURSIVE lstrip(_)
lstrip(s) == IF s # << >> /\ Head(s) \in whitespace THEN lstrip(Tail(s)) ELSE s

Reverse(s) == [k \in 1..Len(s) |-> s[Len(s) + 1 - k]]

strip(s) == Reverse(lstrip(Reverse(lstrip(s))))

\* str.replace(ch, "")
remove(s, ch) == SelectSeq(s, LAMBDA x : x # ch)

\* the position of the first sep in s (s holds one)
FirstAt(s, sep) ==
    CHOOSE k \in 1..Len(s) : s[k] = sep /\ \A m \in 1..(k - 1) : s[m] # sep

\* str.split(sep): the pieces between the separators, empty pieces included
RECURSIVE split(_, _)
split(s, sep) ==
    IF \A k \in 1..Len(s) : s[k] # sep THEN <<s>>
    ELSE <<SubSeq(s, 1, FirstAt(s, sep) - 1)>>
         \o split(SubSeq(s, FirstAt(s, sep) + 1, Len(s)), sep)

\* str.splitlines(): no line for the empty text, none after a final newline
DropLastEmpty(pieces) ==
    IF pieces[Len(pieces)] = << >> THEN SubSeq(pieces, 1, Len(pieces) - 1) ELSE pieces

splitlines(s) == IF s = << >> THEN << >> ELSE DropLastEmpty(split(s, "\n"))

digits == <<"0", "1", "2", "3", "4", "5", "6", "7", "8", "9">>

IsDigit(ch) == \E k \in 1..Len(digits) : digits[k] = ch

DigitValue(ch) == (CHOOSE k \in 1..Len(digits) : digits[k] = ch) - 1

RECURSIVE Number(_)
Number(ds) ==
    IF ds = << >> THEN 0
    ELSE 10 * Number(SubSeq(ds, 1, Len(ds) - 1)) + DigitValue(ds[Len(ds)])

\* the digits of int(s) once the sign is taken off
Unsigned(t) == IF t # << >> /\ Head(t) \in {"+", "-"} THEN Tail(t) ELSE t

Sign(t) == IF t # << >> /\ Head(t) = "-" THEN -1 ELSE 1

IntOf(t) ==
    IF Unsigned(t) # << >> /\ \A k \in 1..Len(Unsigned(t)) : IsDigit(Unsigned(t)[k])
    THEN [ok |-> TRUE, val |-> Sign(t) * Number(Unsigned(t))]
    ELSE [ok |-> FALSE, val |-> 0]

\* int(s): surrounding whitespace, an optional sign, decimal digits; ok FALSE
\* stands for ValueError
int(s) == IntOf(strip(s))

NoPair == [ok |-> FALSE, r |-> 0, c |-> 0]

\* r, c = int(parts[0]), int(parts[1]), ValueError making the loop continue
PairOf(r, c) == IF r.ok /\ c.ok THEN [ok |-> TRUE, r |-> r.val, c |-> c.val] ELSE NoPair

PartsPair(parts) == IF Len(parts) = 2 THEN PairOf(int(parts[1]), int(parts[2])) ELSE NoPair

CleanedPair(cleaned) ==
    IF \E k \in 1..Len(cleaned) : cleaned[k] = "," THEN PartsPair(split(cleaned, ","))
    ELSE NoPair

\* the integer pair one line of the reply holds, if it holds one
LinePair(line) == CleanedPair(remove(remove(remove(line, " "), "("), ")"))

\* the range and emptiness test on the pair is left out
PairMove_unchecked(b, pr) == IF pr.ok THEN <<pr.r, pr.c>> ELSE NoMove

\* if 0 <= r < BOARD_SIZE and 0 <= c < BOARD_SIZE and board[r][c] == 0:
\* return r, c
PairMove(b, pr) == IF pr.ok /\ IsFree(b, <<pr.r, pr.c>>) THEN <<pr.r, pr.c>> ELSE NoMove

\* lines = [line.strip() for line in reply.splitlines()]
LinesOf(reply) == [k \in 1..Len(splitlines(reply)) |-> strip(splitlines(reply)[k])]

\* what each line makes the loop return (None: the loop goes on)
LineMoves(b, lines) == [k \in 1..Len(lines) |-> PairMove(b, LinePair(lines[k]))]

\* the loop stops at the first line that holds an integer pair
ReplyMove_first_pair_only(b, lines, traditional_move) ==
    IF \A k \in 1..Len(lines) : ~LinePair(lines[k]).ok THEN traditional_move
    ELSE IF LineMoves(b, lines)[CHOOSE k \in 1..Len(lines) :
                /\ LinePair(lines[k]).ok
                /\ \A m \in 1..(k - 1) : ~LinePair(lines[m]).ok] # NoMove
    THEN HeadOrNone(SelectSeq(LineMoves(b, lines), LAMBDA m : m # NoMove))
    ELSE traditional_move

\* for line in lines: the first return, else return traditional_move
ReplyMove(b, lines, traditional_move) ==
    IF \A k \in 1..Len(lines) : LineMoves(b, lines)[k] = NoMove THEN traditional_move
    ELSE HeadOrNone(SelectSeq(LineMoves(b, lines), LAMBDA m : m # NoMove))

\* The try block: the chat completion raises, or answers with a text (a
\* content that is not a text raises at .strip()); every Exception ends in
\* return traditional_move.
OracleMove(b, traditional_move, outcome) ==
    IF outcome.raised THEN traditional_move
    ELSE ReplyMove(b, LinesOf(strip(outcome.text)), traditional_move)

\* stage 7 returns the move of strategic_fallback when it scores 10000 or
\* more for the opponent
StrongDefence(fb) ==
    /\ fb.move # NoMove
    /\ evaluate_position(fb.board, fb.move[1], fb.move[2], 1) >= 10000

\* whether ai_move, its stages 1 to 7 having ended as res, asks the oracle
Asked(res, use) == use /\ res.stage = 7 /\ ~StrongDefence(res)

\* stage 8 of ai_move after stages 1 to 7 ended as res
Stage8(res, use, outcome) ==
    IF Asked(res, use)
    THEN [move |-> OracleMove(res.board, res.move, outcome),
          board |-> res.board, stage |-> 8]
    ELSE res

----------------------------------------------------------------------------
(* Positions the interactive game starts from *)

\* Placements explored from each starting position.
MaxPlies == 1

Seg(o, d, len) ==
    { << o[1] + k * directions[d][1], o[2] + k * directions[d][2] >> : k \in 0..(len - 1) }

\* Human stones: nothing, one stone, straight runs of three and four along
\* each axis, runs with a gap, and an open four next to a second four.
HumanShapes ==
    { {}, { <<center, center>> } }
    \cup { Seg(<<1, c0>>, 2, len) : c0 \in 0..2, len \in 3..4 }
    \cup { Seg(<<r0, 5>>, 1, len) : r0 \in 0..1, len \in 3..4 }
    \cup { Seg(<<1, 1>>, 3, len) : len \in 3..4 }
    \cup { Seg(<<1, 5>>, 4, len) : len \in 3..4 }
    \cup { Seg(<<1, 0>>, 2, 2) \cup Seg(<<1, 3>>, 2, 2),
           Seg(<<1, 0>>, 2, 3) \cup Seg(<<1, 4>>, 2, 2),
           Seg(<<3, 1>>, 2, 4) \cup Seg(<<0, 0>>, 2, 4),
           Seg(<<3, 1>>, 2, 4) \cup Seg(<<6, 0>>, 2, 4),
           Seg(<<2, 1>>, 2, 4) \cup Seg(<<4, 1>>, 2, 3) }

\* AI stones: nothing, or a straight run of three or four.
AiShapes ==
    { {} }
    \cup { Seg(<<5, c0>>, 2, len) : c0 \in 0..1, len \in 3..4 }
    \cup { Seg(<<2, 0>>, 1, len) : len \in 3..4 }

\* Cells no two of which are neighbours on any axis: stones added here to
\* even out the two colours form no run among themselves.
Lattice == { p \in Cells : (p[1] + 2 * p[2]) % 5 = 0 }

\* Add stones on free lattice cells to the colour that is short, until the
\* side `turn` is the one to move (the human moves first).
RECURSIVE Balance(_, _, _)
Balance(S1, S2, turn) ==
    LET want == IF turn = 2 THEN 1 ELSE 0
        diff == Cardinality(S1) - Cardinality(S2)
        free == Lattice \ (S1 \cup S2)
        nxt == CHOOSE p \in free : \A q \in free : RowMajor(p) <= RowMajor(q)
    IN  IF diff = want THEN [ok |-> TRUE, s1 |-> S1, s2 |-> S2]
        ELSE IF free = {} THEN [ok |-> FALSE, s1 |-> S1, s2 |-> S2]
        ELSE IF diff < want THEN Balance(S1 \cup {nxt}, S2, turn)
        ELSE Balance(S1, S2 \cup {nxt}, turn)

Stones(S1, S2) ==
    [i \in Idx |-> [j \in Idx |->
        IF <<i, j>> \in S1 THEN 1 ELSE IF <<i, j>> \in S2 THEN 2 ELSE 0]]

\* Every pair of shapes with the AI to move, and every human shape with the
\* human to move.
ShapeBoards ==
    { Stones(bal.s1, bal.s2) :
        bal \in { Balance(h, a, 2) : h \in HumanShapes, a \in AiShapes }
                 \cup { Balance(h, {}, 1) : h \in HumanShapes } }

\* A board filled with stones in runs of at most two on every axis.
FullPattern(s) ==
    [i \in Idx |-> [j \in Idx |-> IF (j + 2 * i + s) % 4 < 2 THEN 1 ELSE 2]]

Count(b, v) == Cardinality({ p \in Cells : b[p[1]][p[2]] = v })

\* The full board, the full board less one human stone, and the full board
\* less one stone of each colour.
FullBoards ==
    LET full == { FullPattern(s) : s \in 0..3 }
        c1 == <<center, center>>
        c2 == <<0, 0>>
    IN  full
        \cup { Put(f, p[1], p[2], 0) : f \in full, p \in {c1, c2} }
        \cup { Put(Put(f, c1[1], c1[2], 0), c2[1], c2[2], 0) : f \in full }

\* The human moves first and the colours alternate: a position is one the
\* game can be in when the counts differ by at most one in the human's
\* favour; play goes on only while nobody has five in a row.
Playable(b) ==
    /\ Count(b, 1) - Count(b, 2) \in {0, 1}
    /\ check_game_over(b) = 0

StartBoards == { b \in ShapeBoards \cup FullBoards : Playable(b) }

ToMove(b) == IF Count(b, 1) = Count(b, 2) THEN 1 ELSE 2

\* a stone of the side that moved last (none on the empty board)
LastStone(b) ==
    LET mover == 3 - ToMove(b)
        theirs == { p \in Cells : b[p[1]][p[2]] = mover }
    IN  IF theirs = {} THEN << >>
        ELSE CHOOSE p \in theirs : \A q \in theirs : RowMajor(q) <= RowMajor(p)

----------------------------------------------------------------------------
(* The interactive game loop *)

\* Cells the human clicks and cells the timeout's random.choice draws.
ClickCells == Seg(<<1, 0>>, 2, BOARD_SIZE) \cup {<<0, 0>>, <<center, center>>, <<3, 5>>}

\* What pygame.event.get() holds after the click being handled: nothing, or
\* one more click. Batches of two clicks are explored for the first
\* placement from a starting position.
LaterClicks == {<<0, 0>>, <<1, 4>>}

ClickBatchRests(n) ==
    IF n = 0 THEN {<< >>} \cup { <<q>> : q \in LaterClicks } ELSE {<< >>}

RandomCells == {<<0, 0>>, <<1, 3>>, <<center, center>>}

InitGame ==
    /\ board \in StartBoards
    /\ current_player = ToMove(board)
    /\ game_over = FALSE
    /\ winner = IF board = EmptyBoard THEN << >> ELSE <<0>>
    /\ last_move = LastStone(board)
    /\ set_order \in {"asc", "desc"}
    /\ plies = 0
    /\ ai_stage = 0
    /\ ai_pre = EmptyBoard
    /\ ai_post = EmptyBoard
    /\ ai_ret = NoMove
    /\ events = << >>
    /\ NetIdle /\ SearchIdle /\ EpisodeIdle /\ PlayIdle /\ CallIdle /\ EvalIdle /\ MoveIdle

\* last_move = (r, c); winner = check_winner(r, c); if winner: game_over =
\* True, else: current_player = the other one
Placed(nb, r, c, player, w) ==
    /\ board' = nb
    /\ last_move' = <<r, c>>
    /\ winner' = <<w>>
    /\ game_over' = (w # 0)
    /\ current_player' = IF w # 0 THEN player ELSE 3 - player
    /\ plies' = plies + 1

CheckPlaced(nb, r, c, player) == Placed(nb, r, c, player, check_winner(nb, r, c))

\* board[r][c] = player, and what follows it
Place(b, r, c, player) == CheckPlaced(Put(b, r, c, player), r, c, player)

\* for event in pygame.event.get(), in the human's turn: MOUSEBUTTONDOWN on
\* an empty cell; the rest of the batch is handled by the same loop
HumanClick ==
    /\ ~game_over /\ current_player = 1 /\ plies < MaxPlies /\ events = << >>
    /\ \E p \in ClickCells :
          /\ InBounds(p[1], p[2]) /\ board[p[1]][p[2]] = 0
          /\ Place(board, p[1], p[2], 1)
    /\ events' \in ClickBatchRests(plies)
    /\ UNCHANGED <<set_order, ai_stage, ai_pre, ai_post, ai_ret>>
    /\ UNCHANGED <<netVars, searchVars, episodeVars, playVars, callVars, evalVars,
                 moveVars>>

\* the stone of a later click of the batch: winner = check_winner(row, col);
\* if winner: game_over = True, else: current_player = 2
LaterPlaced(nb, r, c, w) ==
    /\ board' = nb
    /\ last_move' = <<r, c>>
    /\ winner' = <<w>>
    /\ game_over' = (game_over \/ w # 0)
    /\ current_player' = IF w # 0 THEN current_player ELSE 2
    /\ plies' = plies + 1

LaterCheck(nb, r, c) == LaterPlaced(nb, r, c, check_winner(nb, r, c))

\* the next event of the batch, in the same `for event in pygame.event.get()`
\* of the human's turn: the click is handled like the first one, whatever
\* the first one did
LaterClick ==
    /\ events # << >>
    /\ events' = Tail(events)
    /\ IF InBounds(Head(events)[1], Head(events)[2])
          /\ board[Head(events)[1]][Head(events)[2]] = 0
       THEN LaterCheck(Put(board, Head(events)[1], Head(events)[2], 1),
                       Head(events)[1], Head(events)[2])
       ELSE UNCHANGED <<board, current_player, game_over, winner, last_move, plies>>
    /\ UNCHANGED <<set_order, ai_stage, ai_pre, ai_post, ai_ret>>
    /\ UNCHANGED <<netVars, searchVars, episodeVars, playVars, callVars, evalVars,
                 moveVars>>

\* turn_timer > MAX_TURN_TIME: a random empty cell for the side to move, or
\* the end of the game when there is none
TimeoutMove ==
    /\ ~game_over /\ plies < MaxPlies /\ events = << >>
    /\ LET available_moves == { p \in Cells : board[p[1]][p[2]] = 0 }
       IN  IF available_moves # {}
           THEN \E p \in available_moves \cap RandomCells :
                    Place(board, p[1], p[2], current_player)
           ELSE /\ game_over' = TRUE
                /\ UNCHANGED <<board, current_player, winner, last_move, plies>>
    /\ UNCHANGED <<set_order, ai_stage, ai_pre, ai_post, ai_ret, events>>
    /\ UNCHANGED <<netVars, searchVars, episodeVars, playVars, callVars, evalVars,
                 moveVars>>

\* move = ai_move(); if move: the AI's stone is placed
AIMoveWith(res) ==
    /\ ai_pre' = board
    /\ ai_post' = res.board
    /\ ai_ret' = res.move
    /\ ai_stage' = res.stage
    /\ IF res.move # NoMove
       THEN Place(res.board, res.move[1], res.move[2], 2)
       ELSE /\ board' = res.board
            /\ UNCHANGED <<current_player, game_over, winner, last_move, plies>>
    /\ UNCHANGED <<set_order, events>>

AIMove ==
    /\ ~game_over /\ current_player = 2 /\ plies < MaxPlies /\ events = << >>
    /\ AIMoveWith(ai_move(board, set_order))
    /\ UNCHANGED <<netVars, searchVars, episodeVars, playVars, callVars, evalVars,
                 moveVars>>

\* reset_game(), run by the main loop once game_over is set
ResetGame ==
    /\ game_over /\ events = << >>
    /\ board' = EmptyBoard
    /\ current_player' = 1
    /\ game_over' = FALSE
    /\ winner' = << >>
    /\ last_move' = << >>
    /\ UNCHANGED <<set_order, plies, ai_stage, ai_pre, ai_post, ai_ret, events>>
    /\ UNCHANGED <<netVars, searchVars, episodeVars, playVars, callVars, evalVars,
                 moveVars>>

NextGame == HumanClick \/ LaterClick \/ TimeoutMove \/ AIMove \/ ResetGame

SpecGame == InitGame /\ [][NextGame]_vars

----------------------------------------------------------------------------
(* The training game (GomokuGame); bs is self.board_size *)

\* Floats are held in ten-thousandths: 1.0 is ONE and the 0.0001 that
\* get_game_ended returns for a game not ended is NOT_ENDED.
ONE == 10000

NOT_ENDED == 1

Abs(x) == IF x < 0 THEN -x ELSE x

TIdx(bs) == 0..(bs - 1)

TInBounds(bs, r, c) == r \in TIdx(bs) /\ c \in TIdx(bs)

\* np.zeros((board_size, board_size))
get_initial_state(bs) == [i \in TIdx(bs) |-> [j \in TIdx(bs) |-> 0]]

\* an index into a numpy axis of length bs: negative indices count from the
\* end; outside -bs..bs-1 the access raises IndexError
NpIndexOk(bs, i) == i >= -bs /\ i < bs

NpIndex(bs, i) == IF i < 0 THEN i + bs ELSE i

\* get_next_state writing the stone into the array it was given
get_next_state_in_place(bs, b, action, player) ==
    LET row == action \div bs
        col == action % bs
    IN  IF ~(NpIndexOk(bs, row) /\ NpIndexOk(bs, col))
        THEN [ok |-> FALSE, board |-> << >>, input |-> b]
        ELSE IF b[NpIndex(bs, row)][NpIndex(bs, col)] # 0
        THEN [ok |-> FALSE, board |-> << >>, input |-> b]
        ELSE [ok |-> TRUE,
              board |-> [b EXCEPT ![NpIndex(bs, row)][NpIndex(bs, col)] = player],
              input |-> [b EXCEPT ![NpIndex(bs, row)][NpIndex(bs, col)] = player]]

\* get_next_state: raises (ok FALSE, no board) when the access fails or the
\* cell is occupied, otherwise a copy of the board with the player's value;
\* input is the array passed, as the call leaves it
get_next_state(bs, b, action, player) ==
    LET row == action \div bs
        col == action % bs
    IN  IF ~(NpIndexOk(bs, row) /\ NpIndexOk(bs, col))
        THEN [ok |-> FALSE, board |-> << >>, input |-> b]
        ELSE IF b[NpIndex(bs, row)][NpIndex(bs, col)] # 0
        THEN [ok |-> FALSE, board |-> << >>, input |-> b]
        ELSE [ok |-> TRUE,
              board |-> [b EXCEPT ![NpIndex(bs, row)][NpIndex(bs, col)] = player],
              input |-> b]

\* while 0 <= r < board_size and 0 <= c < board_size and board[r, c] ==
\* player: count += 1; step
RECURSIVE WinRun(_, _, _, _, _, _, _)
WinRun(bs, b, r, c, dr, dc, player) ==
    IF TInBounds(bs, r, c) /\ b[r][c] = player
    THEN 1 + WinRun(bs, b, r + dr, c + dc, dr, dc, player)
    ELSE 0

\* directions = [(0, 1), (1, 0), (1, 1), (1, -1)]
win_directions == << <<0, 1>>, <<1, 0>>, <<1, 1>>, <<1, -1>> >>

WinCount(bs, b, row, col, d) ==
    1 + WinRun(bs, b, row + win_directions[d][1], col + win_directions[d][2],
               win_directions[d][1], win_directions[d][2], b[row][col])
      + WinRun(bs, b, row - win_directions[d][1], col - win_directions[d][2],
               -win_directions[d][1], -win_directions[d][2], b[row][col])

\* check_win, for action = -1 or an action on the board
check_win(bs, b, action) ==
    IF action = -1 THEN FALSE
    ELSE IF b[action \div bs][action % bs] = 0 THEN FALSE
    ELSE \E d \in 1..4 : WinCount(bs, b, action \div bs, action % bs, d) >= 5

\* np.sum(board == 0) == 0
BoardFull(bs, b) == \A i \in TIdx(bs), j \in TIdx(bs) : b[i][j] # 0

\* get_game_ended: the stone's value on a win, 0 on a full board, else 0.0001
get_game_ended(bs, b, action) ==
    IF check_win(bs, b, action) THEN ONE * b[action \div bs][action % bs]
    ELSE IF BoardFull(bs, b) THEN 0
    ELSE NOT_ENDED

\* board * player
get_canonical_form(bs, b, player) ==
    [i \in TIdx(bs) |-> [j \in TIdx(bs) |-> b[i][j] * player]]

\* policy.reshape(board_size, board_size) and m.reshape(-1), row-major
reshape(bs, policy) == [i \in TIdx(bs) |-> [j \in TIdx(bs) |-> policy[i * bs + j]]]

flatten(bs, m) == [a \in 0..(bs * bs - 1) |-> m[a \div bs][a % bs]]

\* np.fliplr: the columns in reverse order
fliplr(bs, m) == [i \in TIdx(bs) |-> [j \in TIdx(bs) |-> m[i][bs - 1 - j]]]

\* np.flipud: the rows in reverse order
flipud(bs, m) == [i \in TIdx(bs) |-> [j \in TIdx(bs) |-> m[bs - 1 - i][j]]]

transpose(bs, m) == [i \in TIdx(bs) |-> [j \in TIdx(bs) |-> m[j][i]]]

\* np.rot90(m, k) with every k giving a quarter turn
rot90_quarter_only(bs, m, k) == transpose(bs, fliplr(bs, m))

\* np.rot90(m, k): k % 4 quarter turns counterclockwise, which numpy makes
\* of flips and a transposition
rot90(bs, m, k) ==
    IF k % 4 = 0 THEN m
    ELSE IF k % 4 = 2 THEN fliplr(bs, flipud(bs, m))
    ELSE IF k % 4 = 1 THEN transpose(bs, fliplr(bs, m))
    ELSE fliplr(bs, transpose(bs, m))

\* (rotated_board, rotated_policy) for rotation i of a board and a policy
Rotated(bs, b, policy, i) ==
    [board |-> rot90(bs, b, i),
     policy |-> flatten(bs, rot90(bs, reshape(bs, policy), i))]

\* get_symmetries with the policy of every pair left as it was given
get_symmetries_policy_kept(bs, b, policy) ==
    << [board |-> b, policy |-> policy] >>
    \o [i \in 1..3 |-> [board |-> rot90(bs, b, i), policy |-> policy]]
    \o << [board |-> fliplr(bs, b), policy |-> policy] >>
    \o [i \in 1..3 |-> [board |-> rot90(bs, fliplr(bs, b), i), policy |-> policy]]

\* get_symmetries: the original, its rotations by 1..3 quarter turns, the
\* horizontal flip, and the rotations of the flip
get_symmetries(bs, b, policy) ==
    << [board |-> b, policy |-> policy] >>
    \o [i \in 1..3 |-> Rotated(bs, b, policy, i)]
    \o << [board |-> fliplr(bs, b),
           policy |-> flatten(bs, fliplr(bs, reshape(bs, policy)))] >>
    \o [i \in 1..3 |->
          Rotated(bs, fliplr(bs, b), flatten(bs, fliplr(bs, reshape(bs, policy))), i)]

----------------------------------------------------------------------------
(* MCTS (mcts.py) *)

\* GomokuGame.board_size of the game that MCTS, self-play and play_game use
board_size == 5

action_size == board_size * board_size

Actions == 0..(action_size - 1)

\* action_taken = None
NoAction == -1

\* Largest num_sims explored
MaxSims == 3

RowOf(action) == action \div board_size

ColOf(action) == action % board_size

RECURSIVE SumUpTo(_, _)
SumUpTo(f, n) == IF n < 0 THEN 0 ELSE f[n] + SumUpTo(f, n - 1)

\* np.sum of a vector indexed by action
VecSum(f) == SumUpTo(f, action_size - 1)

\* entry a of (board.reshape(-1) == 0)
ValidAt(b, a) == IF b[RowOf(a)][ColOf(a)] = 0 THEN 1 ELSE 0

valid_moves(b) == [a \in Actions |-> ValidAt(b, a)]

\* A vector of floats is held as num[a] / den, or as nan when every entry
\* is NaN (the result of 0 / 0).
ZeroVec == [nan |-> FALSE, num |-> [a \in Actions |-> 0], den |-> 1]

\* Plies of a game at which the "pair" predictor spreads its policy over two
\* cells, so that the move is sampled
SampledPlies == 4

\* The predictors explored. A predictor's policy is given by the exponentials
\* of its logits, 0 standing for a logit whose exponential underflows; its
\* value is in ten-thousandths. "flat", "ramp" and "sparse" look at no stone;
\* the others put all their weight on the first empty cells of the board in
\* an order of their own.
WideNets == {"flat", "ramp", "sparse"}

OrderNets == {"rows", "shift", "late", "pair"}

Nets == WideNets \cup OrderNets

CanonSum(cb) == VecSum([a \in Actions |-> cb[RowOf(a)][ColOf(a)]])

CanonStones(cb) == VecSum([a \in Actions |-> Abs(cb[RowOf(a)][ColOf(a)])])

\* the place of action a in the order of predictor n
Rank(n, a) ==
    IF n = "shift" THEN (a + action_size - 1) % action_size
    ELSE IF n = "late" THEN (IF a = 0 THEN 8 ELSE IF a <= 8 THEN a - 1 ELSE a)
    ELSE a

Spread(n, cb) == IF n = "pair" /\ CanonStones(cb) < SampledPlies THEN 2 ELSE 1

\* the first Spread(n, cb) empty cells of cb in the order of n
Leading(n, cb) ==
    { a \in Actions :
        /\ cb[RowOf(a)][ColOf(a)] = 0
        /\ Cardinality({ a2 \in Actions : /\ cb[RowOf(a2)][ColOf(a2)] = 0
                                          /\ Rank(n, a2) < Rank(n, a) }) < Spread(n, cb) }

PolicyOf(n, lead) ==
    [a \in Actions |->
        IF n = "flat" THEN 1
        ELSE IF n = "ramp" THEN 1 + (a % 3)
        ELSE IF n = "sparse" THEN a % 2
        ELSE IF a \in lead THEN 1 ELSE 0]

\* neural_net.predict on a canonical board
predict(n, cb) ==
    [policy |-> PolicyOf(n, IF n \in OrderNets THEN Leading(n, cb) ELSE {}),
     value |-> IF n \in {"flat", "rows", "pair"} THEN 0
               ELSE IF n = "ramp" THEN (IF CanonSum(cb) = 0 THEN ONE \div 2 ELSE -(ONE \div 2))
               ELSE IF n = "shift" THEN ONE \div 2
               ELSE -(ONE \div 2)]

\* exp_policy / np.sum(exp_policy): the exponential of a logit less 1e8
\* (an occupied cell) is 0
VecOver(exp_policy, total) == [nan |-> total = 0, num |-> exp_policy, den |-> total]

MaskedExp(policy, b) == [a \in Actions |-> policy[a] * ValidAt(b, a)]

softmax(policy, b) == VecOver(MaskedExp(policy, b), VecSum(MaskedExp(policy, b)))

\* MCTSNode.__init__
MCTSNode(b, action_taken, player) ==
    [board |-> b, action_taken |-> action_taken, player |-> player,
     children |-> << >>, is_expanded |-> FALSE,
     visit_count |-> 0, total_value |-> 0, action_probs |-> ZeroVec]

\* expand: masked_probs, normalised when its total is > 0 and else
\* valid_moves / np.sum(valid_moves)
Normalised(probs, masked, total, valid, nvalid) ==
    IF ~probs.nan /\ total > 0
    THEN [nan |-> FALSE, num |-> masked, den |-> total]
    ELSE [nan |-> nvalid = 0, num |-> valid, den |-> nvalid]

MaskedProbs(probs, b) == [a \in Actions |-> probs.num[a] * ValidAt(b, a)]

masked_probs(b, probs) ==
    Normalised(probs, MaskedProbs(probs, b), VecSum(MaskedProbs(probs, b)),
               valid_moves(b), VecSum(valid_moves(b)))

ActionSeq == [i \in 1..action_size |-> i - 1]

\* for action in range(len(masked_probs)): if masked_probs[action] > 0 and
\* the cell is empty
ChildActions(b, mp) ==
    SelectSeq(ActionSeq,
              LAMBDA a : ~mp.nan /\ mp.num[a] > 0 /\ b[RowOf(a)][ColOf(a)] = 0)

LastOf(seq) == seq[Len(seq)]

\* the board after every child's stone is written into one array
AllPlaced(b, acts, player) ==
    [i \in TIdx(board_size) |-> [j \in TIdx(board_size) |->
        IF \E k \in 1..Len(acts) : acts[k] = i * board_size + j THEN player ELSE b[i][j]]]

\* Expanded without the two copies (self.board.copy() and board.copy()): the
\* node and its children hold one array, into which every child's stone goes
Expanded_shared_board(t, path, mp, acts, kids) ==
    [q \in DOMAIN t \cup kids |->
        IF q = path
        THEN [t[path] EXCEPT !.action_probs = mp, !.children = acts, !.is_expanded = TRUE,
                             !.board = AllPlaced(t[path].board, acts, t[path].player)]
        ELSE IF q \in kids
        THEN MCTSNode(AllPlaced(t[path].board, acts, t[path].player),
                      LastOf(q), -t[path].player)
        ELSE t[q]]

\* Expanded with `player=self.player` for the children
Expanded_same_player(t, path, mp, acts, kids) ==
    [q \in DOMAIN t \cup kids |->
        IF q = path
        THEN [t[path] EXCEPT !.action_probs = mp, !.children = acts, !.is_expanded = TRUE]
        ELSE IF q \in kids
        THEN MCTSNode(get_next_state(board_size, t[path].board, LastOf(q),
                                     t[path].player).board,
                      LastOf(q), t[path].player)
        ELSE t[q]]

\* the tree with the node at `path` expanded: its action_probs, its children
\* and, for each child, a new node
Expanded(t, path, mp, acts, kids) ==
    [q \in DOMAIN t \cup kids |->
        IF q = path
        THEN [t[path] EXCEPT !.action_probs = mp, !.children = acts, !.is_expanded = TRUE]
        ELSE IF q \in kids
        THEN MCTSNode(get_next_state(board_size, t[path].board, LastOf(q),
                                     t[path].player).board,
                      LastOf(q), -t[path].player)
        ELSE t[q]]

ExpandTo(t, path, mp, acts) ==
    Expanded(t, path, mp, acts, { Append(path, acts[i]) : i \in 1..Len(acts) })

ExpandWith(t, path, mp) == ExpandTo(t, path, mp, ChildActions(t[path].board, mp))

\* MCTSNode.expand on the node at `path`
expand(t, path, action_probs) ==
    ExpandWith(t, path, masked_probs(t[path].board, action_probs))

\* is_terminal with the threshold 1 in place of 0.0001
is_terminal_above_one(node) ==
    /\ node.action_taken # NoAction
    /\ Abs(get_game_ended(board_size, node.board, node.action_taken)) > ONE

\* MCTSNode.is_terminal
is_terminal(node) ==
    /\ node.action_taken # NoAction
    /\ Abs(get_game_ended(board_size, node.board, node.action_taken)) > NOT_ENDED

\* ucb_score without `if child.visit_count == 0: return float('inf')`: an
\* unvisited child scores its average value, 0
ucb_score_unvisited_zero(node, child) ==
    [kind |-> IF child.action_probs.nan THEN "nan" ELSE "num",
     ex_num |-> -child.total_value,
     ex_den |-> IF child.visit_count = 0 THEN 1 ELSE child.visit_count,
     p_num |-> IF child.action_probs.nan THEN 0
               ELSE child.action_probs.num[child.action_taken],
     p_den |-> child.action_probs.den,
     big_n |-> node.visit_count,
     n1 |-> child.visit_count + 1]

\* MCTSNode.ucb_score: inf for an unvisited child, NaN when the prior read is
\* NaN, and else exploitation ex_num / ex_den plus exploration
\* 2 * (p_num / p_den) * sqrt(big_n) / n1
ucb_score(node, child) ==
    [kind |-> IF child.visit_count = 0 THEN "inf"
              ELSE IF child.action_probs.nan THEN "nan"
              ELSE "num",
     ex_num |-> -child.total_value,
     ex_den |-> child.visit_count,
     p_num |-> IF child.action_probs.nan THEN 0
               ELSE child.action_probs.num[child.action_taken],
     p_den |-> child.action_probs.den,
     big_n |-> node.visit_count,
     n1 |-> child.visit_count + 1]

\* d + sqrt(x) - sqrt(y) > 0, given the sign sd of d and d2 = d * d
PlusRootsPositive(sd, d2, x, y) ==
    IF sd >= 0 /\ x >= y THEN sd > 0 \/ x > y
    ELSE IF sd <= 0 /\ x <= y THEN FALSE
    ELSE IF sd > 0 THEN (x + y - d2 < 0) \/ (4 * x * y > (x + y - d2) * (x + y - d2))
    ELSE (x + y - d2 > 0) /\ ((x + y - d2) * (x + y - d2) > 4 * x * y)

\* the square of the exploration term of s, over the denominator sq_den
ExploreSq(s, sq_den) ==
    (4 * s.p_num * s.p_num * s.big_n * sq_den) \div (s.p_den * s.p_den * s.n1 * s.n1)

\* score s > score t, for two scores that are numbers
ScoreGreater(s, t) ==
    IF s.p_num = 0 /\ t.p_num = 0
    THEN s.ex_num * t.ex_den > t.ex_num * s.ex_den
    ELSE PlusRootsPositive(
            s.ex_num * t.ex_den - t.ex_num * s.ex_den,
            (s.ex_num * t.ex_den - t.ex_num * s.ex_den)
              * (s.ex_num * t.ex_den - t.ex_num * s.ex_den)
              * (s.p_den * s.n1 * t.p_den * t.n1) * (s.p_den * s.n1 * t.p_den * t.n1),
            ExploreSq(s, (s.ex_den * t.ex_den * s.p_den * s.n1 * t.p_den * t.n1)
                           * (s.ex_den * t.ex_den * s.p_den * s.n1 * t.p_den * t.n1)),
            ExploreSq(t, (s.ex_den * t.ex_den * s.p_den * s.n1 * t.p_den * t.n1)
                           * (s.ex_den * t.ex_den * s.p_den * s.n1 * t.p_den * t.n1)))

Indices(scores, kind) == { i \in 1..Len(scores) : scores[i].kind = kind }

\* np.argmax of a non-empty list of scores (as an index from 1): the first
\* NaN if there is one, else the first of the largest
argmax(scores) ==
    IF Indices(scores, "nan") # {} THEN MinOf(Indices(scores, "nan"))
    ELSE IF Indices(scores, "inf") # {} THEN MinOf(Indices(scores, "inf"))
    ELSE MinOf({ i \in 1..Len(scores) :
                   \A j \in 1..Len(scores) : ~ScoreGreater(scores[j], scores[i]) })

ucb_scores(t, path) ==
    [i \in 1..Len(t[path].children) |->
        ucb_score(t[path], t[Append(path, t[path].children[i])])]

\* Select: while node.is_expanded and not node.is_terminal(), go to the child
\* with the highest score. sp is search_path (the nodes by their paths); ok
\* is FALSE when np.argmax raises on a node without children.
RECURSIVE Select(_, _)
Select(t, sp) ==
    IF t[LastOf(sp)].is_expanded /\ ~is_terminal(t[LastOf(sp)])
    THEN IF t[LastOf(sp)].children = << >>
         THEN [ok |-> FALSE, path |-> sp]
         ELSE Select(t, Append(sp, Append(LastOf(sp),
                  t[LastOf(sp)].children[argmax(ucb_scores(t, LastOf(sp)))])))
    ELSE [ok |-> TRUE, path |-> sp]

OnPath(sp, q) == \E i \in 1..Len(sp) : sp[i] = q

\* Backpropagate over search_path[1:]: the root is left out
Backpropagate_below_root(t, sp, value, player) ==
    [q \in DOMAIN t |->
        IF OnPath(sp, q) /\ q # << >>
        THEN [t[q] EXCEPT !.visit_count = @ + 1,
                          !.total_value = @ + (IF t[q].player = player THEN value
                                               ELSE -value)]
        ELSE t[q]]

\* Backpropagate: for path_node in search_path
Backpropagate(t, sp, value, player) ==
    [q \in DOMAIN t |->
        IF OnPath(sp, q)
        THEN [t[q] EXCEPT !.visit_count = @ + 1,
                          !.total_value = @ + (IF t[q].player = player THEN value
                                               ELSE -value)]
        ELSE t[q]]

\* the leaf is not terminal: predict on its canonical board and expand it
LeafPredicted(t, leaf, pred) ==
    [tree |-> expand(t, leaf, softmax(pred.policy, t[leaf].board)), value |-> pred.value]

\* the leaf is terminal: value = game_result
LeafTerminal(t, leaf) ==
    [tree |-> t,
     value |-> IF t[leaf].action_taken # NoAction
               THEN get_game_ended(board_size, t[leaf].board, t[leaf].action_taken)
               ELSE 0]

LeafValue(t, leaf, n) ==
    IF ~is_terminal(t[leaf])
    THEN LeafPredicted(t, leaf,
             predict(n, get_canonical_form(board_size, t[leaf].board, t[leaf].player)))
    ELSE LeafTerminal(t, leaf)

SimulateEnd(ev, sp, player) ==
    [ok |-> TRUE, tree |-> Backpropagate(ev.tree, sp, ev.value, player),
     path |-> sp, value |-> ev.value]

SimulateFrom(t, player, n, sel) ==
    IF ~sel.ok THEN [ok |-> FALSE, tree |-> t, path |-> sel.path, value |-> 0]
    ELSE SimulateEnd(LeafValue(t, LastOf(sel.path), n), sel.path, player)

\* one iteration of `for _ in range(self.num_sims)`
Simulate(t, player, n) == SimulateFrom(t, player, n, Select(t, << << >> >>))

RootOnly(b, player) == [q \in { << >> } |-> MCTSNode(b, NoAction, player)]

\* the root made and expanded with the predictor's policy for the board
RootTree(b, player, n) ==
    expand(RootOnly(b, player), << >>,
           softmax(predict(n, get_canonical_form(board_size, b, player)).policy, b))

IsRootChild(t, a) == \E i \in 1..Len(t[<< >>].children) : t[<< >>].children[i] = a

\* visit_counts with every cell that is no child of the root counted once
visit_counts_all_cells(t) ==
    [a \in Actions |-> IF IsRootChild(t, a) THEN t[<<a>>].visit_count ELSE 1]

visit_counts(t) ==
    [a \in Actions |-> IF IsRootChild(t, a) THEN t[<<a>>].visit_count ELSE 0]

\* visit_counts ** (1.0 / temperature) / np.sum(...), with temperature = 1.0
SearchResult(t) == VecOver(visit_counts(t), VecSum(visit_counts(t)))

RECURSIVE SimLoop(_, _, _, _)
SimLoop(st, k, player, n) ==
    IF k = 0 \/ ~st.ok THEN st
    ELSE SimLoop(Simulate(st.tree, player, n), k - 1, player, n)

SearchEnd(st) == [ok |-> st.ok, probs |-> SearchResult(st.tree)]

\* MCTS.search(board, player) with predictor n and num_sims = sims
search(b, player, n, sims) ==
    SearchEnd(SimLoop([ok |-> TRUE, tree |-> RootTree(b, player, n),
                       path |-> << >>, value |-> 0], sims, player, n))

\* np.random.choice(len(action_probs), p = action_probs): raises (no
\* outcome) on NaN, else any action of positive probability
Sampled(probs) == IF probs.nan THEN {} ELSE { a \in Actions : probs.num[a] > 0 }

\* np.argmax(action_probs): index 0 when every entry is NaN
Greedy(probs) ==
    IF probs.nan THEN {0}
    ELSE { MinOf({ a \in Actions : \A a2 \in Actions : probs.num[a2] <= probs.num[a] }) }

----------------------------------------------------------------------------
(* MCTS.search, one simulation at a time *)

TCells == TIdx(board_size) \X TIdx(board_size)

TStones(S1, S2) ==
    [i \in TIdx(board_size) |-> [j \in TIdx(board_size) |->
        IF <<i, j>> \in S1 THEN 1 ELSE IF <<i, j>> \in S2 THEN -1 ELSE 0]]

TCount(b, v) == Cardinality({ p \in TCells : b[p[1]][p[2]] = v })

\* no stone of the board lies on a run of five
NoFive(b) ==
    \A p \in TCells : ~check_win(board_size, b, p[1] * board_size + p[2])

\* a full board with runs of at most two on every axis
TFull(sh) ==
    [i \in TIdx(board_size) |-> [j \in TIdx(board_size) |->
        IF (j + 2 * i + sh) % 4 < 2 THEN 1 ELSE -1]]

TClear(b, S) ==
    [i \in TIdx(board_size) |-> [j \in TIdx(board_size) |->
        IF <<i, j>> \in S THEN 0 ELSE b[i][j]]]

TRow(r, c0, len) == { <<r, c0 + k>> : k \in 0..(len - 1) }

\* Boards a search is called on: the empty board, boards with a few stones,
\* boards with a four that the next move can complete, and boards that are
\* full or short of full by up to three stones. Player 1 moves first, so the
\* counts differ by at most one in its favour.
SearchBoards ==
    { b \in { TStones({}, {}),
              TStones({<<2, 2>>}, {}),
              TStones({<<2, 2>>}, {<<1, 1>>}),
              TStones(TRow(0, 0, 4), TRow(2, 0, 4)),
              TStones(TRow(0, 0, 4) \cup {<<4, 4>>}, TRow(2, 0, 4)),
              TStones(TRow(2, 0, 4) \cup {<<4, 4>>}, TRow(0, 0, 4)),
              TStones(TRow(0, 1, 4), TRow(3, 0, 3) \cup {<<4, 4>>}),
              TStones(TRow(1, 0, 3) \cup {<<4, 0>>, <<4, 2>>}, TRow(3, 1, 4)) }
            \cup { TClear(TFull(sh), S) :
                     sh \in 0..3,
                     S \in SUBSET {<<0, 0>>, <<2, 2>>, <<4, 4>>} } :
        /\ TCount(b, 1) - TCount(b, -1) \in {0, 1}
        /\ NoFive(b) }

TToMove(b) == IF TCount(b, 1) = TCount(b, -1) THEN 1 ELSE -1

InitSearch ==
    /\ root_board \in SearchBoards
    /\ root_player = TToMove(root_board)
    /\ net \in Nets
    /\ num_sims \in 1..MaxSims
    /\ temperature = 0
    /\ tree = << >> /\ sims_done = 0 /\ search_path = << >> /\ search_value = 0
    /\ search_pc = "idle" /\ search_out = << >>
    /\ GameIdle /\ EpisodeIdle /\ PlayIdle /\ CallIdle /\ EvalIdle /\ MoveIdle

\* root = MCTSNode(board, player=player) ... root.expand(action_probs)
StartSearch ==
    /\ search_pc = "idle"
    /\ tree' = RootTree(root_board, root_player, net)
    /\ search_pc' = "running"
    /\ UNCHANGED <<root_board, root_player, sims_done, search_path, search_value,
                   search_out>>
    /\ UNCHANGED <<gameVars, netVars, episodeVars, playVars, callVars, evalVars,
                 moveVars>>

SimulationDone(r) ==
    /\ search_path' = r.path
    /\ IF r.ok
       THEN /\ tree' = r.tree
            /\ sims_done' = sims_done + 1
            /\ search_value' = r.value
            /\ UNCHANGED search_pc
       ELSE /\ search_pc' = "failed"
            /\ UNCHANGED <<tree, sims_done, search_value>>

\* one iteration of the simulation loop; np.argmax raising ends the search
Simulation ==
    /\ search_pc = "running" /\ sims_done < num_sims
    /\ SimulationDone(Simulate(tree, root_player, net))
    /\ UNCHANGED <<root_board, root_player, search_out>>
    /\ UNCHANGED <<gameVars, netVars, episodeVars, playVars, callVars, evalVars,
                 moveVars>>

\* return action_probs
ReturnSearch ==
    /\ search_pc = "running" /\ sims_done = num_sims
    /\ search_out' = SearchResult(tree)
    /\ search_pc' = "returned"
    /\ UNCHANGED <<tree, root_board, root_player, sims_done, search_path, search_value>>
    /\ UNCHANGED <<gameVars, netVars, episodeVars, playVars, callVars, evalVars,
                 moveVars>>

NextSearch == StartSearch \/ Simulation \/ ReturnSearch

SpecSearch == InitSearch /\ [][NextSearch]_vars

----------------------------------------------------------------------------
(* execute_episode (selfplay.py) *)

InitEpisode ==
    /\ ep_board = get_initial_state(board_size)
    /\ ep_player = 1
    /\ ep_boards = << >> /\ ep_players = << >> /\ ep_policies = << >>
    /\ ep_results = << >>
    /\ ep_pc = "running"
    /\ training_data = << >>
    /\ net \in OrderNets
    /\ num_sims \in 1..MaxSims
    /\ temperature \in {ONE, ONE \div 10}
    /\ GameIdle /\ SearchIdle /\ PlayIdle /\ CallIdle /\ EvalIdle /\ MoveIdle

\* result, "from the perspective of the player who just moved"
EpisodeResult(game_result, player) ==
    IF game_result = ONE THEN (IF player = 1 THEN 1 ELSE -1)
    ELSE IF game_result = -ONE THEN (IF player = -1 THEN 1 ELSE -1)
    ELSE 0

\* game_results = [result if i % 2 == 0 else -result for i in range(len(boards))]
Backfill(result, n) == [i \in 1..n |-> IF (i - 1) % 2 = 0 THEN result ELSE -result]

\* boards.append(...); board = next state; the check for the end of the game
EpisodeChecked(nb, game_result, action_probs) ==
    /\ ep_board' = nb
    /\ ep_boards' = Append(ep_boards, get_canonical_form(board_size, ep_board, ep_player))
    /\ ep_policies' = Append(ep_policies, action_probs)
    /\ UNCHANGED training_data
    /\ ep_players' = Append(ep_players, ep_player)
    /\ IF Abs(game_result) > NOT_ENDED
       THEN /\ ep_results' = Backfill(EpisodeResult(game_result, ep_player),
                                      Len(ep_boards) + 1)
            /\ ep_pc' = "done"
            /\ UNCHANGED ep_player
       ELSE /\ ep_player' = -ep_player
            /\ UNCHANGED <<ep_results, ep_pc>>

EpisodeRaised ==
    /\ ep_pc' = "failed"
    /\ UNCHANGED <<ep_board, ep_player, ep_boards, ep_players, ep_policies,
                   ep_results, training_data>>

EpisodeMoved(action, nxt, action_probs) ==
    IF nxt.ok
    THEN EpisodeChecked(nxt.board, get_game_ended(board_size, nxt.board, action),
                        action_probs)
    ELSE EpisodeRaised

\* temperature > 0.1: sample, else np.argmax
EpisodeChoices(probs) == IF temperature > ONE \div 10 THEN Sampled(probs) ELSE Greedy(probs)

EpisodeSearched(res) ==
    IF res.ok /\ EpisodeChoices(res.probs) # {}
    THEN \E action \in EpisodeChoices(res.probs) :
            EpisodeMoved(action, get_next_state(board_size, ep_board, action, ep_player),
                         res.probs)
    ELSE EpisodeRaised

\* one iteration of `while True`; an exception raised by mcts.search or by
\* np.random.choice leaves execute_episode
EpisodeStep ==
    /\ ep_pc = "running"
    /\ EpisodeSearched(search(ep_board, ep_player, net, num_sims))
    /\ UNCHANGED <<gameVars, netVars, searchVars, playVars, callVars, evalVars,
                 moveVars>>

\* one symmetry of one example, with the example's game_result
SymExample(sym, policy, result) ==
    [board |-> sym.board,
     policy |-> [nan |-> policy.nan, num |-> sym.policy, den |-> policy.den],
     game_result |-> result]

\* the game_result negated on the flipped symmetries
SymExamples_flips_negated(syms, policy, result) ==
    [k \in 1..Len(syms) |->
        SymExample(syms[k], policy, IF k <= 4 THEN result ELSE -result)]

\* for sym_board, sym_policy in sym_boards_policies:
\* training_data.append((sym_board, sym_policy, game_result))
SymExamples(syms, policy, result) ==
    [k \in 1..Len(syms) |-> SymExample(syms[k], policy, result)]

\* for board, policy, game_result in examples: the symmetries of examples i..
RECURSIVE AllExamples(_, _, _, _)
AllExamples(boards, policies, results, i) ==
    IF i > Len(boards) THEN << >>
    ELSE SymExamples(get_symmetries(board_size, boards[i], policies[i].num),
                     policies[i], results[i])
         \o AllExamples(boards, policies, results, i + 1)

\* execute_episode returned its examples: generate_selfplay_games adds the
\* symmetries of each to training_data
CollectExamples ==
    /\ ep_pc = "done"
    /\ training_data' = AllExamples(ep_boards, ep_policies, ep_results, 1)
    /\ ep_pc' = "collected"
    /\ UNCHANGED <<ep_board, ep_player, ep_boards, ep_players, ep_policies, ep_results>>
    /\ UNCHANGED <<gameVars, netVars, searchVars, playVars, callVars, evalVars,
                   moveVars>>

NextEpisode == EpisodeStep \/ CollectExamples

SpecEpisode == InitEpisode /\ [][NextEpisode]_vars

----------------------------------------------------------------------------
(* play_game (inference.py), both players being GomokuPlayers *)

InitPlay ==
    /\ pg_board = get_initial_state(board_size)
    /\ pg_player = 1
    /\ pg_pc = "running"
    /\ pg_winner = 0
    /\ net \in OrderNets
    /\ num_sims \in 1..MaxSims
    /\ temperature \in {ONE \div 10, 0}
    /\ GameIdle /\ SearchIdle /\ EpisodeIdle /\ CallIdle /\ EvalIdle /\ MoveIdle

\* if result == 1: winner = current_player; elif result == -1: winner =
\* -current_player; else: winner = 0
PlayWinner(result, player) ==
    IF result = ONE THEN player ELSE IF result = -ONE THEN -player ELSE 0

PlayChecked(nb, result) ==
    /\ pg_board' = nb
    /\ IF Abs(result) > NOT_ENDED
       THEN /\ pg_winner' = PlayWinner(result, pg_player)
            /\ pg_pc' = "returned"
            /\ UNCHANGED pg_player
       ELSE /\ pg_player' = -pg_player
            /\ UNCHANGED <<pg_winner, pg_pc>>

PlayRaised == pg_pc' = "failed" /\ UNCHANGED <<pg_board, pg_player, pg_winner>>

PlayMoved(action, nxt) ==
    IF nxt.ok
    THEN PlayChecked(nxt.board, get_game_ended(board_size, nxt.board, action))
    ELSE PlayRaised

\* GomokuPlayer.get_action: temperature == 0: np.argmax, else sample
PlayChoices(probs) == IF temperature = 0 THEN Greedy(probs) ELSE Sampled(probs)

PlaySearched(res) ==
    IF res.ok /\ PlayChoices(res.probs) # {}
    THEN \E action \in PlayChoices(res.probs) :
            PlayMoved(action, get_next_state(board_size, pg_board, action, pg_player))
    ELSE PlayRaised

\* one iteration of `while True`
PlayStep ==
    /\ pg_pc = "running"
    /\ PlaySearched(search(pg_board, pg_player, net, num_sims))
    /\ UNCHANGED <<gameVars, netVars, searchVars, episodeVars, callVars, evalVars,
                 moveVars>>

NextPlay == PlayStep

SpecPlay == InitPlay /\ [][NextPlay]_vars

----------------------------------------------------------------------------
(* Calls of GomokuGame.get_next_state and GomokuGame.get_symmetries *)

\* Largest distance of an action argument from the range of the actions
MaxOutside == 2

\* The action arguments: every action of the board and, on either side,
\* the integers down to -action_size (which numpy's negative indices still
\* resolve) and MaxOutside beyond
CallActions == (-(action_size + MaxOutside)) .. (action_size + MaxOutside - 1)

\* The policy arguments: one with every entry different, and the visit
\* counts of a search that went to three cells
CallPolicies ==
    { [a \in Actions |-> a + 1],
      [a \in Actions |-> IF a = 1 THEN 2 ELSE IF a \in {board_size, action_size - 1} THEN 1 ELSE 0] }

InitCalls ==
    /\ call_board \in SearchBoards
    /\ call_pre = call_board
    /\ call_policy \in CallPolicies
    /\ call_action \in CallActions
    /\ call_player \in {1, -1}
    /\ call_pc = "ready"
    /\ call_next = << >> /\ call_syms = << >>
    /\ GameIdle /\ NetIdle /\ SearchIdle /\ EpisodeIdle /\ PlayIdle /\ EvalIdle /\ MoveIdle

NextStateCalled(res) ==
    /\ call_next' = [ok |-> res.ok, board |-> res.board]
    /\ call_board' = res.input

\* game.get_next_state(board, action, player)
CallNextState ==
    /\ call_pc = "ready"
    /\ NextStateCalled(get_next_state(board_size, call_board, call_action, call_player))
    /\ call_pc' = "next_state"
    /\ UNCHANGED <<call_pre, call_policy, call_action, call_player, call_syms>>
    /\ UNCHANGED <<gameVars, netVars, searchVars, episodeVars, playVars, evalVars,
                 moveVars>>

\* game.get_symmetries(board, policy)
CallSymmetries ==
    /\ call_pc = "ready"
    /\ call_syms' = get_symmetries(board_size, call_board, call_policy)
    /\ call_pc' = "symmetries"
    /\ UNCHANGED <<call_board, call_pre, call_policy, call_action, call_player, call_next>>
    /\ UNCHANGED <<gameVars, netVars, searchVars, episodeVars, playVars, evalVars,
                 moveVars>>

NextCalls == CallNextState \/ CallSymmetries

SpecCalls == InitCalls /\ [][NextCalls]_vars

----------------------------------------------------------------------------
(* Calls of evaluate_position and evaluate_board (main.py) *)

\* Boards on which the stone just placed completed five in a row
WonBoards ==
    { Put(bp[1], bp[2][1], bp[2][2], ToMove(bp[1])) :
        bp \in { x \in StartBoards \X ClickCells :
                   /\ InBounds(x[2][1], x[2][2]) /\ x[1][x[2][1]][x[2][2]] = 0
                   /\ check_winner(Put(x[1], x[2][1], x[2][2], ToMove(x[1])),
                                   x[2][1], x[2][2]) # 0 } }

\* Boards with a five that has a stone of the other colour or the edge of
\* the board beyond each end: one of the human, one of the AI
BlockedFiveBoards ==
    { Stones(Seg(<<1, 0>>, 2, 5), {<<1, 5>>, <<3, 0>>, <<3, 2>>, <<3, 4>>}),
      Stones({<<5, 0>>, <<5, 6>>, <<3, 1>>, <<3, 3>>, <<3, 5>>}, Seg(<<5, 1>>, 2, 5)) }

\* The boards the evaluators are called on: those of a game in progress and
\* those on which the last stone made five (alpha_beta_search evaluates
\* these at its leaves)
EvalBoards == StartBoards \cup WonBoards \cup BlockedFiveBoards

InitEval ==
    /\ ev_board \in EvalBoards
    /\ ev_cell \in Cells
    /\ ev_player \in {1, 2}
    /\ ev_pc = "ready"
    /\ ev_score = 0 /\ ev_total = 0
    /\ GameIdle /\ NetIdle /\ SearchIdle /\ EpisodeIdle /\ PlayIdle /\ CallIdle
    /\ MoveIdle

\* evaluate_position(r, c, player)
CallEvaluatePosition ==
    /\ ev_pc = "ready"
    /\ ev_score' = evaluate_position(ev_board, ev_cell[1], ev_cell[2], ev_player)
    /\ ev_pc' = "position"
    /\ UNCHANGED <<ev_board, ev_cell, ev_player, ev_total>>
    /\ UNCHANGED <<gameVars, netVars, searchVars, episodeVars, playVars, callVars,
                 moveVars>>

\* evaluate_board()
CallEvaluateBoard ==
    /\ ev_pc = "ready"
    /\ ev_total' = evaluate_board(ev_board)
    /\ ev_pc' = "board"
    /\ UNCHANGED <<ev_board, ev_cell, ev_player, ev_score>>
    /\ UNCHANGED <<gameVars, netVars, searchVars, episodeVars, playVars, callVars,
                 moveVars>>

NextEval == CallEvaluatePosition \/ CallEvaluateBoard

SpecEval == InitEval /\ [][NextEval]_vars

----------------------------------------------------------------------------
(* Calls of ai_move, alpha_beta_search and get_valid_moves *)

RECURSIVE Digits(_)
Digits(n) ==
    IF n < 10 THEN <<digits[n + 1]>> ELSE Digits(n \div 10) \o <<digits[(n % 10) + 1]>>

\* the decimal numeral of an integer
Num(n) == IF n < 0 THEN <<"-">> \o Digits(-n) ELSE Digits(n)

\* Rows and columns the oracle names: off the board on either side, a
\* corner, the centre.
ReplyCoords == {-1, 0, center, BOARD_SIZE + 3}

\* "r,c" and "(r, c)"
PlainLine(r, c) == Num(r) \o <<",">> \o Num(c)

ParenLine(r, c) == <<"(">> \o Num(r) \o <<",", " ">> \o Num(c) \o <<")">>

\* Lines without an integer pair: empty, prose, one number, three numbers, a
\* letter for a number, a decimal point; and a pair with a sign and a
\* leading zero.
OtherLines ==
    { << >>, <<"o", "k">>, <<"1", ",">>, <<"1", ",", "2", ",", "3">>,
      <<"x", ",", "1">>, <<"1", ".", "5", ",", "2">>,
      <<"+", "1", ",", " ", "0", "2">> }

FirstLines ==
    { PlainLine(r, c) : r \in ReplyCoords, c \in ReplyCoords }
    \cup { ParenLine(r, c) : r \in {0, center}, c \in {0, center} }
    \cup OtherLines

SecondLines ==
    { PlainLine(0, 0), PlainLine(center, center), PlainLine(1, 2),
      ParenLine(0, center), <<"o", "k">> }

\* Replies of one line, of two lines, and with blanks and newlines around.
Replies ==
    FirstLines
    \cup { a \o <<"\n">> \o b : a \in FirstLines, b \in SecondLines }
    \cup { <<" ", "\n">> \o b \o <<" ", "\n">> : b \in SecondLines }

\* What the chat completion does: it raises, or it answers with a text.
Outcomes ==
    { [raised |-> TRUE, text |-> << >>] }
    \cup { [raised |-> FALSE, text |-> t] : t \in Replies }

NoOutcome == [raised |-> FALSE, text |-> << >>]

InitMoves ==
    /\ mv_board \in StartBoards
    /\ mv_order \in {"asc", "desc"}
    /\ mv_pc = "ready"
    /\ use_llm = TRUE
    /\ mv_reply = NoOutcome
    /\ mv_ai = << >>
    /\ mv_depth = 0 /\ mv_maximizing = TRUE
    /\ mv_search = << >> /\ mv_valid = << >>
    /\ mv_player = 0 /\ mv_threat = << >>
    /\ GameIdle /\ NetIdle /\ SearchIdle /\ EpisodeIdle /\ PlayIdle /\ CallIdle
    /\ EvalIdle

\* ai_move() whose stages 1 to 7 ended as res: the oracle is asked or not,
\* and the call returns
AiMoveReturned(res) ==
    \E outcome \in (IF Asked(res, use_llm) THEN Outcomes ELSE {NoOutcome}) :
        /\ mv_reply' = outcome
        /\ mv_ai' = [traditional_move |-> res.move,
                     asked |-> Asked(res, use_llm),
                     ret |-> Stage8(res, use_llm, outcome)]

\* move = ai_move(), in the AI's turn
CallAiMove ==
    /\ mv_pc = "ready" /\ ToMove(mv_board) = 2
    /\ AiMoveReturned(ai_move(mv_board, mv_order))
    /\ mv_pc' = "ai_move"
    /\ UNCHANGED <<mv_board, mv_order, use_llm, mv_depth, mv_maximizing, mv_search,
                   mv_valid, mv_player, mv_threat>>
    /\ UNCHANGED <<gameVars, netVars, searchVars, episodeVars, playVars, callVars,
                   evalVars>>

\* Depths of the calls of alpha_beta_search: up to the depth strategic_fallback
\* uses, and one more on boards with a single stone.
SearchDepths(b) ==
    IF Count(b, 0) = NumCells - 1 THEN 0..(SearchDepth + 1) ELSE 0..SearchDepth

\* alpha_beta_search(depth, float('-inf'), float('inf'), maximizing_player)
CallAlphaBeta ==
    /\ mv_pc = "ready"
    /\ \E depth \in SearchDepths(mv_board), maximizing_player \in BOOLEAN :
          /\ mv_depth' = depth
          /\ mv_maximizing' = maximizing_player
          /\ mv_search' = alpha_beta_search(mv_board, depth, -INF, INF,
                                            maximizing_player, mv_order)
    /\ mv_pc' = "search"
    /\ UNCHANGED <<mv_board, mv_order, use_llm, mv_reply, mv_ai, mv_valid, mv_player,
                   mv_threat>>
    /\ UNCHANGED <<gameVars, netVars, searchVars, episodeVars, playVars, callVars,
                   evalVars>>

\* moves = get_valid_moves()
CallGetValidMoves ==
    /\ mv_pc = "ready"
    /\ mv_valid' = get_valid_moves(mv_board, mv_order)
    /\ mv_pc' = "valid_moves"
    /\ UNCHANGED <<mv_board, mv_order, use_llm, mv_reply, mv_ai, mv_depth,
                   mv_maximizing, mv_search, mv_player, mv_threat>>
    /\ UNCHANGED <<gameVars, netVars, searchVars, episodeVars, playVars, callVars,
                   evalVars>>

\* has_threat(board, player), for either colour
CallHasThreat ==
    /\ mv_pc = "ready"
    /\ \E player \in {1, 2} :
          /\ mv_player' = player
          /\ mv_threat' = has_threat(mv_board, player)
    /\ mv_pc' = "has_threat"
    /\ UNCHANGED <<mv_board, mv_order, use_llm, mv_reply, mv_ai, mv_depth,
                   mv_maximizing, mv_search, mv_valid>>
    /\ UNCHANGED <<gameVars, netVars, searchVars, episodeVars, playVars, callVars,
                   evalVars>>

NextMoves == CallAiMove \/ CallGetValidMoves \/ CallHasThreat

SpecMoves == InitMoves /\ [][NextMoves]_vars

\* Boards alpha_beta_search is called on: the start boards with at most two
\* stones or at most three empty cells, an open four of either side with the
\* other side to move, and two positions of an opening.
AlphaBetaBoards ==
    { b \in StartBoards : Count(b, 0) <= 3 \/ Count(b, 0) >= NumCells - 2 }
    \cup { Stones(Seg(<<3, 1>>, 2, 4), Seg(<<2, 1>>, 2, 3)),
           Stones(Seg(<<2, 1>>, 2, 3) \cup {<<4, 4>>}, Seg(<<3, 1>>, 2, 4)),
           Stones({<<3, 3>>, <<3, 4>>, <<2, 3>>}, {<<2, 4>>, <<4, 3>>}),
           Stones({<<3, 3>>, <<2, 2>>}, {<<3, 2>>, <<2, 3>>}) }

InitAlphaBeta ==
    /\ mv_board \in AlphaBetaBoards
    /\ mv_order \in {"asc", "desc"}
    /\ mv_pc = "ready"
    /\ use_llm = FALSE
    /\ mv_reply = NoOutcome
    /\ mv_ai = << >>
    /\ mv_depth = 0 /\ mv_maximizing = TRUE
    /\ mv_search = << >> /\ mv_valid = << >>
    /\ mv_player = 0 /\ mv_threat = << >>
    /\ GameIdle /\ NetIdle /\ SearchIdle /\ EpisodeIdle /\ PlayIdle /\ CallIdle
    /\ EvalIdle

NextAlphaBeta == CallAlphaBeta

SpecAlphaBeta == InitAlphaBeta /\ [][NextAlphaBeta]_vars

----------------------------------------------------------------------------
(* Properties of the interactive game *)

\* the board with the interactive game's colours 1, 2 written as 1, -1
AsTrainBoard(b) == [i \in Idx |-> [j \in Idx |-> IF b[i][j] = 2 THEN -1 ELSE b[i][j]]]

\* some window of `len` consecutive cells of one axis holds (r, c) and only
\* stones of the colour at (r, c)
RunThrough(b, r, c, len) ==
    \E d \in 1..4 : \E k \in 0..(len - 1) : \A i \in 0..(len - 1) :
        /\ InBounds(r + (i - k) * directions[d][1], c + (i - k) * directions[d][2])
        /\ b[r + (i - k) * directions[d][1]][c + (i - k) * directions[d][2]] = b[r][c]

Occupied(b) == { p \in Cells : b[p[1]][p[2]] # 0 }

EmptyCells(b) == { p \in Cells : b[p[1]][p[2]] = 0 }

\* the empty cells at which a stone of `colour` completes five in a row
Completing(b, colour) ==
    { p \in EmptyCells(b) : RunThrough(Put(b, p[1], p[2], colour), p[1], p[2], 5) }

FirstCell(S) == CHOOSE p \in S : \A q \in S : RowMajor(p) <= RowMajor(q)

\* C1: on every board and occupied cell, check_winner reports the colour of
\* the stone exactly when a run of five or more of that colour passes through
\* the cell on some axis (and 0 otherwise), and check_win is true exactly then.
C1_WinIffRunOfFive ==
    \A p \in Occupied(board) :
        /\ check_winner(board, p[1], p[2]) =
              (IF RunThrough(board, p[1], p[2], 5) THEN board[p[1]][p[2]] ELSE 0)
        /\ check_win(BOARD_SIZE, AsTrainBoard(board), p[1] * BOARD_SIZE + p[2])
              <=> RunThrough(board, p[1], p[2], 5)

\* a stone was placed into a run of six and the game was declared won
C1_Witness ==
    /\ game_over /\ last_move # << >> /\ winner = <<1>>
    /\ RunThrough(board, last_move[1], last_move[2], 6)

\* C2: when ai_move returns, the board holds the cell values it held before
\* the call.
C2_BoardRestored == ai_stage # 0 => ai_post = ai_pre

\* C3: when some empty cell completes five for the AI, ai_move returns such
\* a cell, whatever the opponent could complete.
C3_OwnWinFirst ==
    (ai_stage # 0 /\ Completing(ai_pre, 2) # {}) => ai_ret \in Completing(ai_pre, 2)

\* both sides had a completing cell and ai_move returned from stage 1
C3_Witness ==
    /\ ai_stage = 1
    /\ Completing(ai_pre, 2) # {} /\ Completing(ai_pre, 1) # {}
    /\ ai_ret \notin Completing(ai_pre, 1)

\* C4: when no empty cell completes five for the AI and some empty cell
\* completes five for the opponent, ai_move returns a cell at which the
\* opponent would have completed five.
C4_BlockSecond ==
    (ai_stage # 0 /\ Completing(ai_pre, 2) = {} /\ Completing(ai_pre, 1) # {})
        => ai_ret \in Completing(ai_pre, 1)

C4_Witness ==
    ai_stage = 2 /\ Completing(ai_pre, 2) = {} /\ ai_ret \in Completing(ai_pre, 1)

\* the pairs of cells flanking a run of exactly four stones of `colour`, both
\* cells in bounds and empty
OpenFourFlanks(b, colour) ==
    { fl \in { << <<p[1] - directions[d][1], p[2] - directions[d][2]>>,
                  <<p[1] + 4 * directions[d][1], p[2] + 4 * directions[d][2]>> >> :
               p \in Cells, d \in 1..4 } :
        /\ \A e \in 1..2 : InBounds(fl[e][1], fl[e][2]) /\ b[fl[e][1]][fl[e][2]] = 0
        /\ \A i \in 1..4 :
              LET x == fl[1][1] + i * ((fl[2][1] - fl[1][1]) \div 5)
                  y == fl[1][2] + i * ((fl[2][2] - fl[1][2]) \div 5)
              IN  b[x][y] = colour }

FlankCells(b, colour) == UNION { {fl[1], fl[2]} : fl \in OpenFourFlanks(b, colour) }

\* C5 as stated: with an open four of the opponent on the board and no
\* winning cell for the AI, the cell returned flanks an open four.
C5_FlankOnly ==
    (ai_stage # 0 /\ OpenFourFlanks(ai_pre, 1) # {} /\ Completing(ai_pre, 2) = {})
        => ai_ret \in FlankCells(ai_pre, 1)

\* C5, as the code has it: with an open four of the opponent on the board and
\* no winning cell for the AI, the cell returned is the first cell in scan
\* order at which the opponent completes five; both flanks of every open four
\* are such cells, so the cell returned is a flank unless another completing
\* cell of the opponent comes earlier in the scan.
C5_FirstCompletingCell ==
    (ai_stage # 0 /\ OpenFourFlanks(ai_pre, 1) # {} /\ Completing(ai_pre, 2) = {})
        => /\ FlankCells(ai_pre, 1) \subseteq Completing(ai_pre, 1)
           /\ ai_ret = FirstCell(Completing(ai_pre, 1))
           /\ ai_stage = 2

\* the opponent had an open four and a completing cell before it in the scan
C5_Witness ==
    /\ ai_stage = 2 /\ OpenFourFlanks(ai_pre, 1) # {} /\ Completing(ai_pre, 2) = {}
    /\ ai_ret \notin FlankCells(ai_pre, 1)

\* C6: ai_move returns a cell that is in bounds and was empty before the call
\* when the board has an empty cell, and no move when it has none.
C6_EmptyCellOrNone ==
    ai_stage # 0 =>
        IF EmptyCells(ai_pre) # {} THEN ai_ret \in EmptyCells(ai_pre)
        ELSE ai_ret = NoMove

----------------------------------------------------------------------------
(* Properties of self-play, play_game and MCTS.search *)

\* some stone of `colour` lies on a run of five or more
HasFive(b, colour) ==
    \E p \in TCells : /\ b[p[1]][p[2]] = colour
                      /\ check_win(board_size, b, p[1] * board_size + p[2])

\* the board is full and holds no five in a row
IsDraw(b) == BoardFull(board_size, b) /\ NoFive(b)

\* the side that completed five in a row (0 when there is none)
FiveOf(b) == IF HasFive(b, 1) THEN 1 ELSE IF HasFive(b, -1) THEN -1 ELSE 0

\* C7: once the board of a self-play episode is full with no five in a row,
\* the episode has ended and every recorded ply has outcome 0.
C7_DrawEndsEpisode ==
    (ep_pc # "idle" /\ IsDraw(ep_board))
        => /\ ep_pc = "done"
           /\ Len(ep_results) = Len(ep_boards)
           /\ \A i \in 1..Len(ep_results) : ep_results[i] = 0

\* C8: when an episode has ended with a five in a row, each recorded ply has
\* outcome +1 if the player to move at that ply is the winner and -1 if not.
C8_OutcomeFollowsWinner ==
    (ep_pc = "done" /\ FiveOf(ep_board) # 0)
        => /\ Len(ep_results) = Len(ep_players)
           /\ \A i \in 1..Len(ep_results) :
                 ep_results[i] = (IF ep_players[i] = FiveOf(ep_board) THEN 1 ELSE -1)

\* C9: play_game returns 1 when player 1 completed five in a row, -1 when
\* player -1 did, and it returns 0 once the board is full with no five.
C9_PlayGameResult ==
    /\ pg_pc = "returned" => pg_winner = FiveOf(pg_board)
    /\ (pg_pc # "idle" /\ IsDraw(pg_board)) => (pg_pc = "returned" /\ pg_winner = 0)

\* the nodes below the root whose board is full with no five in a row
DrawNodes == { q \in DOMAIN tree : q # << >> /\ IsDraw(tree[q].board) }

\* C10: in a search, a node whose board is full with no five in a row is
\* never expanded, a simulation that ends at it backpropagates 0, and the
\* search does not fail.
C10_DrawNodeTerminal ==
    search_pc # "idle"
        => /\ \A q \in DrawNodes : ~tree[q].is_expanded
           /\ (search_path # << >> /\ LastOf(search_path) \in DrawNodes) => search_value = 0
           /\ DrawNodes # {} => search_pc # "failed"

\* C11: the visit counts of the root's children total the simulations run, and
\* the vector a search returns is 0 at every occupied cell of the board and
\* its entries sum to 1.
C11_VisitDistribution ==
    /\ search_pc = "running" => VecSum(visit_counts(tree)) = sims_done
    /\ search_pc = "returned" =>
          /\ ~search_out.nan
          /\ search_out.den = num_sims
          /\ VecSum(search_out.num) = search_out.den
          /\ \A a \in Actions : ValidAt(root_board, a) = 0 => search_out.num[a] = 0

\* a search of MaxSims simulations returned for a board that has stones, with
\* the visits spread over more than one cell
C11_Witness ==
    /\ search_pc = "returned" /\ num_sims = MaxSims
    /\ \E a \in Actions : ValidAt(root_board, a) = 0
    /\ Cardinality({ a \in Actions : search_out.num[a] > 0 }) > 1

ParentOf(q) == SubSeq(q, 1, Len(q) - 1)

\* the board of the node at q is its parent's board with the parent's player
\* on the cell of q's action and nothing else changed
OneStoneMore(t, q) ==
    /\ t[ParentOf(q)].board[RowOf(LastOf(q))][ColOf(LastOf(q))] = 0
    /\ t[q].board = [t[ParentOf(q)].board EXCEPT
                        ![RowOf(LastOf(q))][ColOf(LastOf(q))] = t[ParentOf(q)].player]

\* C12: a search never modifies the board it was called with (which the root
\* holds), and expanding a node leaves the node's board as it was: at every
\* point of a search the root's board is the caller's board and every other
\* node's board is its parent's with the one stone of its action added.
C12_BoardsNotModified ==
    tree # << >> =>
        /\ tree[<< >>].board = root_board
        /\ \A q \in DOMAIN tree : q # << >> => OneStoneMore(tree, q)

\* a node below the root has been expanded: it has a child of its own
C12_Witness ==
    /\ search_pc = "running"
    /\ \E q \in DOMAIN tree : Len(q) = 2

----------------------------------------------------------------------------
(* Properties of the threat detector and the evaluators *)

SeqRange(seq) == { seq[t] : t \in 1..Len(seq) }

\* the cells flanking a run of exactly three stones of `player` whose two
\* flanking cells are both on the board and empty
LiveThreeFlanks(b, player) ==
    UNION { { StepFrom(s[1], s[2], d, -1), StepFrom(s[1], s[2], d, 3) } :
            <<s, d>> \in { sd \in Cells \X (1..4) :
                /\ \A k \in 0..2 :
                      /\ InBounds(StepFrom(sd[1][1], sd[1][2], sd[2], k)[1],
                                  StepFrom(sd[1][1], sd[1][2], sd[2], k)[2])
                      /\ b[StepFrom(sd[1][1], sd[1][2], sd[2], k)[1]]
                           [StepFrom(sd[1][1], sd[1][2], sd[2], k)[2]] = player
                /\ IsFree(b, StepFrom(sd[1][1], sd[1][2], sd[2], -1))
                /\ IsFree(b, StepFrom(sd[1][1], sd[1][2], sd[2], 3)) } }

\* three stones in the centre row of an otherwise empty board
CentreThree ==
    Put(Put(Put(EmptyBoard, center, center - 1, 1), center, center, 1),
        center, center + 1, 1)

\* C15: for either player, the cells detect_live_three returns are exactly
\* the cells flanking the runs of exactly three of the player's stones that
\* have both flanking cells on the board and empty; three stones in a row on
\* an otherwise empty board give exactly their two flanking cells.
C15_LiveThreeFlanks ==
    /\ \A player \in {1, 2} :
          SeqRange(detect_live_three(board, player)) = LiveThreeFlanks(board, player)
    /\ SeqRange(detect_live_three(CentreThree, 1))
          = { <<center, center - 2>>, <<center, center + 2>> }

\* ai_move went past stage 4 on a board with an open three of the human and
\* a run of three of the AI that is not open, and moved to a flank of the
\* human's three
C15_Witness ==
    /\ ai_stage >= 5
    /\ ai_ret \in SeqRange(detect_live_three(ai_pre, 1))
    /\ \E n \in 0..(4 * NumCells - 1) :
          /\ ai_pre[ScanCell(n)[1]][ScanCell(n)[2]] = 2
          /\ ChainLen(ai_pre, ScanCell(n)[1], ScanCell(n)[2], ScanDir(n)) = 3
          /\ ~OpenEnds(ai_pre, ScanCell(n)[1], ScanCell(n)[2], ScanDir(n))

\* 1 when the cell just beyond a run of `player` is off the board or holds
\* a stone of the opponent
EndBlocked(b, p, player) ==
    IF ~InBounds(p[1], p[2]) THEN 1
    ELSE IF b[p[1]][p[2]] = 3 - player THEN 1 ELSE 0

\* the value for a length and a number of blocked ends
ThreatTable(length, blocked) ==
    IF blocked = 0
    THEN (IF length >= 5 THEN 1000000 ELSE IF length = 4 THEN 100000
          ELSE IF length = 3 THEN 10000 ELSE IF length = 2 THEN 1000 ELSE 0)
    ELSE IF blocked = 1
    THEN (IF length >= 5 THEN 100000 ELSE IF length = 4 THEN 10000
          ELSE IF length = 3 THEN 1000 ELSE IF length = 2 THEN 100 ELSE 0)
    ELSE 0

\* own stones next to the empty cell (r, c) on the two sides of axis d
OwnAhead(b, r, c, player, d) ==
    RunFrom(b, r + directions[d][1], c + directions[d][2],
            directions[d][1], directions[d][2], player)

OwnBehind(b, r, c, player, d) ==
    RunFrom(b, r - directions[d][1], c - directions[d][2],
            -directions[d][1], -directions[d][2], player)

AxisValue(b, r, c, player, d) ==
    ThreatTable(1 + OwnAhead(b, r, c, player, d) + OwnBehind(b, r, c, player, d),
                EndBlocked(b, StepFrom(r, c, d, OwnAhead(b, r, c, player, d) + 1), player)
                + EndBlocked(b, StepFrom(r, c, d, -(OwnBehind(b, r, c, player, d) + 1)),
                             player))

\* C16: for an empty cell and either player, evaluate_position is the sum
\* over the four axes of the table value for the length (1 plus the own
\* stones adjoining the cell on both sides) and the number of blocked ends,
\* an end being blocked when the cell beyond the run holds an opponent stone
\* or is off the board.
C16_TableWithEdgesBlocked ==
    \A p \in EmptyCells(board) : \A player \in {1, 2} :
        evaluate_position(board, p[1], p[2], player)
          = AxisValue(board, p[1], p[2], player, 1) + AxisValue(board, p[1], p[2], player, 2)
            + AxisValue(board, p[1], p[2], player, 3) + AxisValue(board, p[1], p[2], player, 4)

----------------------------------------------------------------------------
(* Properties of get_symmetries and get_next_state *)

\* the inverse of the transform of pair k: the quarter turns taken back and,
\* for the pairs made from the flip, the flip applied again
InverseOf(bs, k, m) ==
    IF k <= 4 THEN rot90(bs, m, -(k - 1))
    ELSE fliplr(bs, rot90(bs, m, -(k - 5)))

\* C13: for each pair that get_symmetries returns, the inverse of the pair's
\* transform, applied to its board and to its policy reshaped to N x N,
\* gives back the board and the policy that were passed.
C13_SymmetryRoundTrip ==
    call_pc = "symmetries" =>
        \A k \in 1..Len(call_syms) :
            /\ InverseOf(board_size, k, call_syms[k].board) = call_board
            /\ flatten(board_size,
                       InverseOf(board_size, k, reshape(board_size, call_syms[k].policy)))
                  = call_policy

\* symmetries were returned for a board and a policy that a rotation and the
\* rotated flip both change
C13_Witness ==
    /\ call_pc = "symmetries"
    /\ call_syms[2].board # call_board /\ call_syms[2].policy # call_policy
    /\ call_syms[6].board # call_board /\ call_syms[6].policy # call_policy

\* the cell whose content symmetry k moves to cell (i, j) of an N x N array:
\* identity, the quarter turn, the half turn, the three-quarter turn, the
\* horizontal flip, and the flip followed by each of the three turns
SymSource(bs, k, i, j) ==
    IF k = 1 THEN <<i, j>>
    ELSE IF k = 2 THEN <<j, bs - 1 - i>>
    ELSE IF k = 3 THEN <<bs - 1 - i, bs - 1 - j>>
    ELSE IF k = 4 THEN <<bs - 1 - j, i>>
    ELSE IF k = 5 THEN <<i, bs - 1 - j>>
    ELSE IF k = 6 THEN <<j, i>>
    ELSE IF k = 7 THEN <<bs - 1 - i, j>>
    ELSE <<bs - 1 - j, bs - 1 - i>>

\* C14: get_symmetries returns 8 pairs, the first being the input; pair k
\* has, at every cell, the stone and the policy entry of one and the same
\* cell of the input, the one the k-th of the 8 symmetries takes there; and
\* the 8 permutations differ from one another.
C14_EightSymmetries ==
    call_pc = "symmetries" =>
        /\ Len(call_syms) = 8
        /\ call_syms[1] = [board |-> call_board, policy |-> call_policy]
        /\ \A k \in 1..8 : \A i \in TIdx(board_size), j \in TIdx(board_size) :
              /\ call_syms[k].board[i][j]
                    = call_board[SymSource(board_size, k, i, j)[1]]
                                [SymSource(board_size, k, i, j)[2]]
              /\ call_syms[k].policy[i * board_size + j]
                    = call_policy[SymSource(board_size, k, i, j)[1] * board_size
                                  + SymSource(board_size, k, i, j)[2]]
        /\ \A k1 \in 1..8, k2 \in 1..8 :
              k1 # k2 => \E i \in TIdx(board_size), j \in TIdx(board_size) :
                  SymSource(board_size, k1, i, j) # SymSource(board_size, k2, i, j)
        /\ (\A a1 \in Actions, a2 \in Actions : a1 # a2 => call_policy[a1] # call_policy[a2])
              => \A k1 \in 1..8, k2 \in 1..8 :
                    k1 # k2 => call_syms[k1].policy # call_syms[k2].policy

\* symmetries were returned for a policy with no two entries equal and a
\* board that no symmetry but the identity leaves as it is
C14_Witness ==
    /\ call_pc = "symmetries"
    /\ \A a1 \in Actions, a2 \in Actions : a1 # a2 => call_policy[a1] # call_policy[a2]
    /\ \A k \in 2..8 : call_syms[k].board # call_board

\* C19: get_next_state with an action naming an occupied cell raises, makes
\* no new board and leaves the board passed as it was; with an action naming
\* an empty cell it returns a board that has the player's value on that cell
\* and equals the board passed on every other cell, and leaves the board
\* passed as it was.
C19_NextStateOnBoard ==
    (call_pc = "next_state" /\ call_action \in Actions) =>
        /\ call_board = call_pre
        /\ IF call_pre[RowOf(call_action)][ColOf(call_action)] # 0
           THEN ~call_next.ok /\ call_next.board = << >>
           ELSE /\ call_next.ok
                /\ \A i \in TIdx(board_size), j \in TIdx(board_size) :
                      call_next.board[i][j]
                        = IF i * board_size + j = call_action THEN call_player
                          ELSE call_pre[i][j]

\* player -1 was given the next state for an empty cell of a board with
\* stones, and the call for an occupied cell of that board raises
C19_Witness ==
    /\ call_pc = "next_state" /\ call_action \in Actions
    /\ call_next.ok /\ call_player = -1
    /\ call_next.board[RowOf(call_action)][ColOf(call_action)] = -1
    /\ \E a \in Actions :
          /\ call_pre[RowOf(a)][ColOf(a)] # 0
          /\ ~get_next_state(board_size, call_pre, a, call_player).ok

\* C20: get_next_state raises and makes no new board for every action
\* outside 0..N*N-1, the negative ones included.
C20_OutOfRangeRejected ==
    (call_pc = "next_state" /\ call_action \notin Actions) =>
        ~call_next.ok /\ call_next.board = << >>

----------------------------------------------------------------------------
(* Symmetry of evaluate_position, and fives in evaluate_board *)

\* the board of the interactive game under the k-th of the 8 rotations and
\* reflections
SymBoard(k, b) ==
    [i \in Idx |-> [j \in Idx |->
        b[SymSource(BOARD_SIZE, k, i, j)[1]][SymSource(BOARD_SIZE, k, i, j)[2]]]]

\* the cell to which the k-th symmetry takes cell p
SymTarget(k, p) == CHOOSE q \in Cells : SymSource(BOARD_SIZE, k, q[1], q[2]) = p

\* a single stone on the centre of the empty board
CentreStone == Put(EmptyBoard, center, center, 1)

\* C17: evaluate_position is invariant under the 8 rotations and reflections
\* of the board: what it returned for a board, a cell and a player is what it
\* gives for each transformed board, the cell's image and the same player;
\* with one stone on the centre, the four cells next to it on its row and
\* column all score the same.
C17_EvaluateSymmetric ==
    /\ ev_pc = "position" =>
          \A k \in 1..8 :
              evaluate_position(SymBoard(k, ev_board), SymTarget(k, ev_cell)[1],
                                SymTarget(k, ev_cell)[2], ev_player) = ev_score
    /\ \A player \in {1, 2} :
          \A q \in { <<center - 1, center>>, <<center + 1, center>>,
                      <<center, center - 1>>, <<center, center + 1>> } :
              evaluate_position(CentreStone, q[1], q[2], player)
                = evaluate_position(CentreStone, center, center + 1, player)

\* evaluate_position gave a positive score for a cell off the centre of a
\* board that no symmetry but the identity leaves as it is
C17_Witness ==
    /\ ev_pc = "position" /\ ev_score > 0
    /\ \A k \in 2..8 : SymBoard(k, ev_board) # ev_board /\ SymTarget(k, ev_cell) # ev_cell

\* some stone of `colour` lies on a run of five or more
HasRunOfFive(b, colour) ==
    \E p \in Cells : b[p[1]][p[2]] = colour /\ RunThrough(b, p[1], p[2], 5)

----------------------------------------------------------------------------
(* Properties of the game loop, the oracle and the searches *)

\* C21: while the game is not over, the human has as many stones as the AI
\* when it is the human's turn and one more when it is the AI's turn, through
\* clicks, AI moves, timeout moves and resets.
C21_TurnMatchesCounts ==
    ~game_over =>
        Count(board, 1) - Count(board, 2) = (IF current_player = 1 THEN 0 ELSE 1)

\* The oracle was asked about a board that is not full. The side of the
\* board is odd, as BOARD_SIZE = 15 is: the human moving first, a board with
\* the AI to move then has an even number of empty cells, two or more when
\* it is not full.
OracleAsked ==
    /\ mv_pc = "ai_move" /\ mv_ai.asked
    /\ Count(mv_board, 0) > 0
    /\ BOARD_SIZE % 2 = 1

\* the lines of the reply that hold an integer pair
PairLines(text) ==
    SelectSeq(LinesOf(strip(text)), LAMBDA line : LinePair(line).ok)

FirstPairIllegal ==
    /\ OracleAsked /\ ~mv_reply.raised
    /\ PairLines(mv_reply.text) # << >>
    /\ ~IsFree(mv_board, <<LinePair(PairLines(mv_reply.text)[1]).r,
                           LinePair(PairLines(mv_reply.text)[1]).c>>)

LegalPairs(b, text) ==
    SelectSeq([k \in 1..Len(PairLines(text)) |->
                  <<LinePair(PairLines(text)[k]).r, LinePair(PairLines(text)[k]).c>>],
              LAMBDA p : IsFree(b, p))

VisitedMoves ==
    { pa \in (DOMAIN tree) \X Actions :
        /\ \E i \in 1..Len(tree[pa[1]].children) : tree[pa[1]].children[i] = pa[2]
        /\ tree[Append(pa[1], pa[2])].visit_count >= 1 }

\* C24: the score selection gives a child visited at least once is a number,
\* its exploitation term is -(child total_value / child visit_count), and the
\* prior of its exploration term is the probability the parent's expansion
\* gave to the move that leads to the child.
C24_ParentPrior ==
    \A pa \in VisitedMoves :
        /\ ucb_score(tree[pa[1]], tree[Append(pa[1], pa[2])]).kind = "num"
        /\ ucb_score(tree[pa[1]], tree[Append(pa[1], pa[2])]).ex_num
              = -tree[Append(pa[1], pa[2])].total_value
        /\ ucb_score(tree[pa[1]], tree[Append(pa[1], pa[2])]).p_num
              * tree[pa[1]].action_probs.den
           = tree[pa[1]].action_probs.num[pa[2]]
              * ucb_score(tree[pa[1]], tree[Append(pa[1], pa[2])]).p_den

\* the board of ply i of the episode as it stood before the move: the
\* recorded board with the signs of the player to move put back
PlyBoard(i) ==
    [r \in TIdx(board_size) |-> [c \in TIdx(board_size) |->
        ep_boards[i][r][c] * ep_players[i]]]

\* board b2 is board b1 with one stone of `player` added on an empty cell
OneStoneAdded(b1, b2, player) ==
    \E p \in TCells :
        /\ b1[p[1]][p[2]] = 0 /\ b2[p[1]][p[2]] = player
        /\ \A q \in TCells \ {p} : b2[q[1]][q[2]] = b1[q[1]][q[2]]

\* C25: a game adds to the training data exactly 8 examples per ply played,
\* the 8 of a ply carrying that ply's outcome, their boards being the
\* symmetries of the board recorded for the ply; the recorded boards,
\* signs put back, are the successive positions of the game before each move
\* (the empty board first, one stone of the player to move added each ply).
C25_EightExamplesPerPly ==
    ep_pc = "collected" =>
        /\ Len(ep_boards) = Len(ep_players)
        /\ Len(training_data) = 8 * Len(ep_players)
        /\ \A i \in 1..Len(ep_players) :
              /\ \A k \in 1..8 :
                    /\ training_data[8 * (i - 1) + k].game_result = ep_results[i]
                    /\ training_data[8 * (i - 1) + k].board
                          = get_symmetries(board_size, ep_boards[i],
                                           ep_policies[i].num)[k].board
              /\ training_data[8 * (i - 1) + 1].board = ep_boards[i]
              /\ i = 1 => PlyBoard(i) = get_initial_state(board_size)
              /\ i < Len(ep_players) =>
                    OneStoneAdded(PlyBoard(i), PlyBoard(i + 1), ep_players[i])
              /\ i = Len(ep_players) =>
                    OneStoneAdded(PlyBoard(i), ep_board, ep_players[i])

\* a finished game of both players whose examples were collected
C25_Witness ==
    /\ ep_pc = "collected"
    /\ Len(ep_players) >= 2 * board_size - 1
    /\ Len(training_data) = 8 * Len(ep_players)
    /\ \E i \in 1..Len(ep_players) : ep_players[i] = -1 /\ ep_results[i] = -ep_results[1]

\* a simulation was completed by this step
SimulationStep == sims_done' = sims_done + 1

\* what the step added to the total_value of node number k of its search_path
Gain(k) == tree'[search_path'[k]].total_value - tree[search_path'[k]].total_value

\* C26: a simulation that ends at a non-terminal leaf adds +value to the
\* leaf, -value to its parent, and so on with alternating sign up to the
\* root, whatever the depth of the leaf and the player at the root.
C26_LeafGainsValue ==
    [][(SimulationStep /\ ~is_terminal(tree'[LastOf(search_path')]))
        => \A k \in 1..Len(search_path') :
              Gain(k) = IF (Len(search_path') - k) % 2 = 0 THEN search_value'
                        ELSE -search_value']_vars

\* C27: a simulation that ends at a terminal node whose last move completed
\* five in a row takes 1 (ONE) off that node's total_value, for root player
\* +1 and for root player -1.
C27_WinningNodeLosesOne ==
    [][(/\ SimulationStep
        /\ is_terminal(tree'[LastOf(search_path')])
        /\ check_win(board_size, tree'[LastOf(search_path')].board,
                     tree'[LastOf(search_path')].action_taken))
        => Gain(Len(search_path')) = -ONE]_vars

\* Depth-limited minimax without pruning, over get_valid_moves,
\* check_game_over and evaluate_board: the largest (the AI to move) or the
\* smallest (the human to move) of the values of the positions after each
\* candidate move.
RECURSIVE minimax(_, _, _, _)

MaxOf(S) == CHOOSE x \in S : \A y \in S : y <= x

MinimaxValues(b, depth, maximizing_player, ord, moves) ==
    { minimax(Put(b, moves[k][1], moves[k][2], IF maximizing_player THEN 2 ELSE 1),
              depth - 1, ~maximizing_player, ord) : k \in 1..Len(moves) }

MinimaxWith(b, depth, maximizing_player, ord, w) ==
    IF depth = 0 \/ w # 0
    THEN (IF w = 2 THEN INF ELSE IF w = 1 THEN -INF ELSE evaluate_board(b))
    ELSE IF maximizing_player
    THEN MaxOf(MinimaxValues(b, depth, TRUE, ord, get_valid_moves(b, ord)))
    ELSE MinOf(MinimaxValues(b, depth, FALSE, ord, get_valid_moves(b, ord)))

minimax(b, depth, maximizing_player, ord) ==
    MinimaxWith(b, depth, maximizing_player, ord, check_game_over(b))

\* C28: alpha_beta_search with the window (-inf, +inf) returns the value of
\* plain depth-limited minimax over the same moves, terminal test and leaf
\* evaluation.
C28_AlphaBetaIsMinimax ==
    mv_pc = "search" =>
        mv_search.val = minimax(mv_board, mv_depth, mv_maximizing, mv_order)

\* a search of the depth strategic_fallback uses, over several moves, whose
\* value is neither infinite nor the evaluation of the board as it stands
C28_Witness ==
    /\ mv_pc = "search" /\ mv_depth = SearchDepth
    /\ Len(get_valid_moves(mv_board, mv_order)) >= 3
    /\ mv_search.val \notin {INF, -INF, evaluate_board(mv_board)}
    /\ mv_search.val = minimax(mv_board, mv_depth, mv_maximizing, mv_order)

NextToStone(b) ==
    { p \in Cells :
        /\ b[p[1]][p[2]] = 0
        /\ \E q \in Cells :
              /\ b[q[1]][q[2]] # 0
              /\ q # p
              /\ q[1] - p[1] \in {-1, 0, 1} /\ q[2] - p[2] \in {-1, 0, 1} }

Manhattan(p) ==
    (IF p[1] >= BOARD_SIZE \div 2 THEN p[1] - BOARD_SIZE \div 2
     ELSE BOARD_SIZE \div 2 - p[1])
    + (IF p[2] >= BOARD_SIZE \div 2 THEN p[2] - BOARD_SIZE \div 2
       ELSE BOARD_SIZE \div 2 - p[2])

\* the board holds a stone and an empty cell
StonesAndRoom(b) == Count(b, 0) > 0 /\ Count(b, 0) < NumCells

\* C30: on a board with a stone and an empty cell, get_valid_moves returns
\* exactly the empty cells that are 8-neighbours of a stone, each once, in
\* order of non-decreasing Manhattan distance to the centre.
C30_NeighboursByDistance ==
    (mv_pc = "valid_moves" /\ StonesAndRoom(mv_board)) =>
        /\ { mv_valid[k] : k \in 1..Len(mv_valid) } = NextToStone(mv_board)
        /\ Len(mv_valid) = Cardinality(NextToStone(mv_board))
        /\ \A k \in 1..Len(mv_valid) : IsFree(mv_board, mv_valid[k])
        /\ \A k \in 1..(Len(mv_valid) - 1) :
              Manhattan(mv_valid[k]) <= Manhattan(mv_valid[k + 1])

\* several candidates at several distances, some empty cells not among them
C30_Witness ==
    /\ mv_pc = "valid_moves" /\ StonesAndRoom(mv_board)
    /\ Len(mv_valid) >= 3
    /\ Manhattan(mv_valid[1]) < Manhattan(mv_valid[Len(mv_valid)])
    /\ Len(mv_valid) < Count(mv_board, 0)

----------------------------------------------------------------------------
(* get_valid_moves on the empty board *)

\* C31: on an entirely empty board get_valid_moves returns the centre cell
\* as its sole candidate.
C31_EmptyBoardCentreOnly ==
    (mv_pc = "valid_moves" /\ mv_board = EmptyBoard) =>
        mv_valid = << <<center, center>> >>

----------------------------------------------------------------------------
(* has_threat *)

\* the four cells s, s + d, s + 2d, s + 3d
FourFrom(s, d) == { StepFrom(s[1], s[2], d, k) : k \in 0..3 }

\* Runs of four stones of `player` whose two flanking cells are in bounds
\* and empty, given by first cell and direction; with both flanks empty the
\* run is maximal.
OpenFours(b, player) ==
    { sd \in Cells \X (1..4) :
        /\ \A p \in FourFrom(sd[1], sd[2]) :
              InBounds(p[1], p[2]) /\ b[p[1]][p[2]] = player
        /\ IsFree(b, StepFrom(sd[1][1], sd[1][2], sd[2], -1))
        /\ IsFree(b, StepFrom(sd[1][1], sd[1][2], sd[2], 4)) }

\* C32: has_threat(board, player) returns (True, [a, b]) exactly when the
\* player has a maximal run of exactly four stones on some axis with both
\* flanking cells in bounds and empty, a and b being the flanking cells of
\* such a run; otherwise it returns (False, []).
C32_OpenFourIff ==
    mv_pc = "has_threat" =>
        /\ mv_threat.found <=> OpenFours(mv_board, mv_player) # {}
        /\ mv_threat.found =>
              \E sd \in OpenFours(mv_board, mv_player) :
                  mv_threat.points =
                      << StepFrom(sd[1][1], sd[1][2], sd[2], -1),
                         StepFrom(sd[1][1], sd[1][2], sd[2], 4) >>
        /\ ~mv_threat.found => mv_threat.points = << >>

\* an open four is reported on a board that also holds a four of the same
\* colour with a flank off the board
C32_Witness ==
    /\ mv_pc = "has_threat" /\ mv_threat.found
    /\ \E s \in Cells, d \in 1..4 :
          /\ \A p \in FourFrom(s, d) :
                InBounds(p[1], p[2]) /\ mv_board[p[1]][p[2]] = mv_player
          /\ ~InBounds(StepFrom(s[1], s[2], d, -1)[1], StepFrom(s[1], s[2], d, -1)[2])

----------------------------------------------------------------------------
(* MCTSNode.expand *)

\* the empty cells of a board, as actions
EmptyActions(b) == { a \in Actions : ValidAt(b, a) = 1 }

\* C33: after expand on a board with an empty cell, the node's priors are 0
\* on every occupied cell and sum to 1, and the node has exactly one child
\* for each empty cell of its board.
C33_ChildPerEmptyCell ==
    \A p \in DOMAIN tree :
        (tree[p].is_expanded /\ EmptyActions(tree[p].board) # {}) =>
            /\ ~tree[p].action_probs.nan
            /\ \A a \in Actions \ EmptyActions(tree[p].board) :
                  tree[p].action_probs.num[a] = 0
            /\ VecSum(tree[p].action_probs.num) = tree[p].action_probs.den
            /\ Len(tree[p].children) = Cardinality(EmptyActions(tree[p].board))
            /\ { tree[p].children[i] : i \in 1..Len(tree[p].children) }
                   = EmptyActions(tree[p].board)

----------------------------------------------------------------------------
(* Selection among the children of a node *)

\* the child of the node at p for its i-th action
ChildAt(t, p, i) == t[Append(p, t[p].children[i])]

\* the nodes where selection chooses among children of which one is unvisited
ChoosingNodes ==
    { p \in DOMAIN tree :
        /\ tree[p].is_expanded /\ ~is_terminal(tree[p])
        /\ \E i \in 1..Len(tree[p].children) : ChildAt(tree, p, i).visit_count = 0 }

\* C34: at an expanded non-terminal node a child with visit count 0 is
\* preferred over every visited child: selection goes to an unvisited child
\* while there is one, so no child has a second visit while a sibling has
\* none.
C34_UnvisitedFirst ==
    \A p \in ChoosingNodes :
        /\ ChildAt(tree, p, argmax(ucb_scores(tree, p))).visit_count = 0
        /\ \A i \in 1..Len(tree[p].children) : ChildAt(tree, p, i).visit_count <= 1

\* a node with a visited child and an unvisited one, the visited one first
C34_Witness ==
    \E p \in ChoosingNodes :
        /\ ChildAt(tree, p, 1).visit_count = 1
        /\ ChildAt(tree, p, 1).total_value < 0

----------------------------------------------------------------------------
(* Nodes whose move completed five in a row *)

\* the nodes made by a move that completed five in a row
WonNodes ==
    { q \in DOMAIN tree :
        /\ tree[q].action_taken # NoAction
        /\ check_win(board_size, tree[q].board, tree[q].action_taken) }

\* C35: a node produced by a move that completed five in a row is never
\* expanded and has no children, and a simulation that reaches it stops
\* there: it is the last node of the search path.
C35_WonNodeNotExpanded ==
    /\ \A q \in WonNodes : ~tree[q].is_expanded /\ tree[q].children = << >>
    /\ search_pc = "running" =>
          \A k \in 1..(Len(search_path) - 1) : search_path[k] \notin WonNodes

\* two simulations have ended at a node whose move completed five in a row
C35_Witness ==
    /\ search_pc = "running" /\ search_path # << >>
    /\ LastOf(search_path) \in WonNodes
    /\ tree[LastOf(search_path)].visit_count >= 2

----------------------------------------------------------------------------
(* Visit counts *)

\* the visit count of the node at q, 0 while the node does not exist
VisitsIn(t, q) == IF q \in DOMAIN t THEN t[q].visit_count ELSE 0

\* the sum of the visit counts of the children of the node at p
ChildVisits(t, p) ==
    LET RECURSIVE Upto(_)
        Upto(i) == IF i = 0 THEN 0 ELSE ChildAt(t, p, i).visit_count + Upto(i - 1)
    IN  Upto(Len(t[p].children))

\* between simulations: the root's count is the sum of its children's, and
\* every other expanded non-terminal node's count is 1 plus that sum
VisitsBalanced ==
    search_pc = "running" =>
        /\ tree[<< >>].visit_count = ChildVisits(tree, << >>)
        /\ \A p \in DOMAIN tree :
              (p # << >> /\ tree[p].is_expanded /\ ~is_terminal(tree[p])) =>
                  tree[p].visit_count = 1 + ChildVisits(tree, p)

\* no count decreases, and a simulation adds exactly 1 to the count of each
\* node of its path and nothing to any other node
VisitsStep ==
    (tree # << >>) =>
        /\ \A q \in DOMAIN tree : VisitsIn(tree', q) >= tree[q].visit_count
        /\ SimulationStep =>
              \A q \in DOMAIN tree' :
                  VisitsIn(tree', q) - VisitsIn(tree, q)
                      = IF OnPath(search_path', q) THEN 1 ELSE 0

\* C36: within one search no visit count decreases; each simulation adds
\* exactly 1 to the visit count of each node on its descent path and of no
\* other node; after every completed simulation the root's visit count is
\* the sum of its children's and every other expanded non-terminal node's
\* is 1 plus the sum of its children's.
C36_VisitCounts == []VisitsBalanced /\ [][VisitsStep]_vars

\* after the last simulation, a node below the root that was expanded by
\* one simulation and passed through by another
C36_Witness ==
    /\ search_pc = "running" /\ sims_done = MaxSims
    /\ \E p \in DOMAIN tree :
          /\ p # << >> /\ tree[p].is_expanded /\ ~is_terminal(tree[p])
          /\ tree[p].visit_count >= 2

----------------------------------------------------------------------------
(* Children and their parents *)

\* the cells on which two boards differ, as actions
Differing(b1, b2) == { a \in Actions : b1[RowOf(a)][ColOf(a)] # b2[RowOf(a)][ColOf(a)] }

\* the node at `p` and its i-th child: one cell differs, the child's
\* action_taken, empty in the parent and the parent's player in the child,
\* and the child's player is the other one
ChildFollows(t, p, i) ==
    /\ ChildAt(t, p, i).action_taken = t[p].children[i]
    /\ Differing(t[p].board, ChildAt(t, p, i).board) = { t[p].children[i] }
    /\ t[p].board[RowOf(t[p].children[i])][ColOf(t[p].children[i])] = 0
    /\ ChildAt(t, p, i).board[RowOf(t[p].children[i])][ColOf(t[p].children[i])]
          = t[p].player
    /\ ChildAt(t, p, i).player = -t[p].player

\* C37: in every tree state each child's board is its parent's except at the
\* child's action_taken cell, empty in the parent and holding the parent's
\* player in the child; the child's player is the negation of the parent's;
\* the action_taken values of siblings are pairwise distinct.
C37_ChildrenOfParent ==
    \A p \in DOMAIN tree :
        /\ \A i \in 1..Len(tree[p].children) : ChildFollows(tree, p, i)
        /\ \A i, j \in 1..Len(tree[p].children) :
              i # j => ChildAt(tree, p, i).action_taken # ChildAt(tree, p, j).action_taken

\* the root and one of its children both have several children, for root
\* player -1
C37_Witness ==
    /\ search_pc = "running" /\ root_player = -1
    /\ Len(tree[<< >>].children) >= 2
    /\ \E i \in 1..Len(tree[<< >>].children) :
          Len(ChildAt(tree, << >>, i).children) >= 2

----------------------------------------------------------------------------
(* The open-four stages of ai_move *)

\* has_threat reports an open four of the AI or of the opponent on the board
\* ai_move was called on
OpenFourSeen == has_threat(mv_board, 2).found \/ has_threat(mv_board, 1).found

\* C38: stages 3 and 4 of ai_move never return a move: on every board where
\* has_threat reports an open four for the AI or for the opponent, stage 1
\* or stage 2 has already returned.
C38_OpenFourStagesSilent ==
    mv_pc = "ai_move" =>
        /\ mv_ai.ret.stage \notin {3, 4}
        /\ OpenFourSeen => mv_ai.ret.stage \in {1, 2}

\* the opponent alone has an open four, and stage 2 returned one of its
\* flanks
C38_Witness ==
    /\ mv_pc = "ai_move" /\ mv_ai.ret.stage = 2
    /\ has_threat(mv_board, 1).found /\ ~has_threat(mv_board, 2).found
    /\ \E k \in 1..2 : has_threat(mv_board, 1).points[k] = mv_ai.ret.move

----------------------------------------------------------------------------
(* The end of a game in the main loop *)

\* every cell holds a stone and nobody has five in a row
FullNoFive == Count(board, 0) = 0 /\ check_game_over(board) = 0

\* C39: once the board is full with no five in a row, the game is declared
\* over before any further move is attempted, and until reset no stone is
\* placed, overwritten or removed: the step that follows leaves the board as
\* it is with game_over set.
C39_FullBoardEndsGame ==
    [][(FullNoFive /\ ~ResetGame) => (board' = board /\ game_over')]_vars

\* C40: after a placement is detected as completing five in a row, game_over
\* stays true and no cell of the board changes until reset_game runs, and
\* reset_game leaves every cell empty with player 1 to move, no winner and
\* no last move.
C40_WonGameFrozen ==
    [][(game_over /\ check_game_over(board) # 0) =>
          \/ game_over' /\ board' = board
          \/ /\ ~game_over' /\ board' = EmptyBoard /\ current_player' = 1
             /\ winner' = << >> /\ last_move' = << >>]_vars

====
